---- MODULE Spec2Model ----
(***************************************************************************)
(* Model of the gami Asterisk Manager Interface client (gami.go): the      *)
(* action id generator Aid, the callback storage cbList, the Asterisk      *)
(* session (Login, SendAction, HoldCallbackAction, DelCallback, handler    *)
(* registration, the list aggregators) and the readDispatcher goroutine    *)
(* with the handler goroutines it starts.                                  *)
(*                                                                         *)
(* A Message (map[string]string) is a function from header names to        *)
(* values; a missing key reads as "" as a Go map does.  A *func(Message)   *)
(* is a handler value, Nil for the nil pointer.                            *)
(***************************************************************************)
EXTENDS Integers, Sequences, FiniteSets, TLC

\* ------------------------------------------------------------ bounds
\* Generate() calls made in all by the concurrent callers of SpecAid.
MaxCalls == 11
\* Packets the server sends on one connection.
MaxPackets == 3
\* Requests (SendAction, HoldCallbackAction, list calls) one user goroutine
\* makes.
MaxOps == 1
\* RegisterHandler, UnregisterHandler and DefaultHandler calls one user
\* goroutine makes.
MaxRegOps == 3
\* Packets written to the connection in SpecCodec.
MaxFrames == 2

\* ------------------------------------------------------------ constants
_HOST == "gami"
_CMD_END == "--END COMMAND--"

Nil == "nil"
\* what os.Hostname() may give NewAid: an error (-> _HOST) or a name
Hostnames == {"", "pbx"}

\* ------------------------------------------------------------ Message
Get(m, k) == IF k \in DOMAIN m THEN m[k] ELSE ""

Has(m, k) == k \in DOMAIN m

Put(m, k, v) == [h \in DOMAIN m \cup {k} |-> IF h = k THEN v ELSE m[h]]

\* ------------------------------------------------------------ Aid
Digit(d) ==
    CASE d = 0 -> "0" [] d = 1 -> "1" [] d = 2 -> "2" [] d = 3 -> "3"
      [] d = 4 -> "4" [] d = 5 -> "5" [] d = 6 -> "6" [] d = 7 -> "7"
      [] d = 8 -> "8" [] d = 9 -> "9"

RECURSIVE Sprint(_)
\* fmt.Sprint of a non-negative int: its decimal digits
Sprint(n) == IF n < 10 THEN Digit(n) ELSE Sprint(n \div 10) \o Digit(n % 10)

\* NewAid: the host is os.Hostname(), _HOST when that fails ("" here)
NewAidHost(hn) == IF hn = "" THEN _HOST ELSE hn

AidIncrStuck(id) == id

\* a.id++
AidIncr(id) == id + 1

AidStringNoDash(h, id) == h \o Sprint(id)

\* a.host + "-" + fmt.Sprint(a.id)
AidString(h, id) == h \o "-" \o Sprint(id)

MuFreeAlways(mu) == TRUE

\* a.mu.Lock() can be taken
MuFree(mu) == mu = Nil

\* ------------------------------------------------------------ cbList
EmptyCbList == [f |-> <<>>, sd |-> <<>>]

\* an entry already there kept as it is
setKeepsFirst(cbl, key, f, sd) ==
    IF key \in DOMAIN cbl.f THEN cbl
    ELSE [f |-> Put(cbl.f, key, f), sd |-> Put(cbl.sd, key, sd)]

\* cbl.f[key] = f; cbl.sd[key] = sd
set(cbl, key, f, sd) == [f |-> Put(cbl.f, key, f), sd |-> Put(cbl.sd, key, sd)]

delKeeps(cbl, key) == cbl

\* delete(cbl.f, key); delete(cbl.sd, key)
del(cbl, key) ==
    [f  |-> [k \in DOMAIN cbl.f \ {key} |-> cbl.f[k]],
     sd |-> [k \in DOMAIN cbl.sd \ {key} |-> cbl.sd[k]]]

\* return cbl.f[key], cbl.sd[key]  (nil, false for a missing key)
get(cbl, key) ==
    [f  |-> IF key \in DOMAIN cbl.f THEN cbl.f[key] ELSE Nil,
     sd |-> IF key \in DOMAIN cbl.sd THEN cbl.sd[key] ELSE FALSE]

\* ------------------------------------------------------------ a.defaultHandler
\* DefaultHandler writes a.defaultHandler and readDispatcher reads it with no
\* lock: a read may give any write not yet ordered before it.  view is the
\* writes a read may still give, oldest first, its last the one in memory;
\* unpub counts the last writes made since the writer released a lock the
\* dispatcher takes; at is how many packets were read when the last was made.
Last(q) == q[Len(q)]

DhWrite(mem, f, n) ==
    [view |-> Append(mem.view, f), unpub |-> mem.unpub + 1, at |-> n]

\* go a.readDispatcher(): the goroutine starts with every earlier write
DhStart(mem) == [mem EXCEPT !.view = <<Last(mem.view)>>, !.unpub = 0]

\* cbl.mu.Unlock() by the writer
DhRelease(mem) == [mem EXCEPT !.unpub = 0]

\* cbl.mu.RLock() by the dispatcher: the writes released before are seen
DhAcquire(mem) ==
    [mem EXCEPT !.view = SubSeq(mem.view, Len(mem.view) - mem.unpub,
                                Len(mem.view))]

DhReadLatest(mem) == {Len(mem.view)}

\* the writes a read of a.defaultHandler may give
DhReadable(mem) == 1..Len(mem.view)

\* the read gave write i: no older write is read after it
DhRead(mem, i) ==
    [mem EXCEPT !.view = SubSeq(mem.view, i, Len(mem.view)),
                !.unpub = IF mem.unpub < Len(mem.view) - i THEN mem.unpub
                          ELSE Len(mem.view) - i]

\* ------------------------------------------------------------ handlers
\* user supplied *func(Message) values
UserHandlers == {"h1"}

\* the closure lhf of Login
Lhf == "lhf"

Users == {"u1"}

\* the goroutines that may call the session's methods: the user goroutine
\* and a second one, which calls only where two callers are looked at
Callers == Users \cup {"u2"}

\* error values (nil is Nil)
ErrNotAuthorized == "Not authorized"
ErrNilCallback == "Use SendAction with nil callback!"
ErrShortWrite == "Not fully writed packet to output stream\n"
ErrConnWrite == "write: broken pipe"

VARIABLES
    host,        \* a.aid.host
    aidId,       \* a.aid.id
    aidMu,       \* a.aid.mu: Nil or the goroutine holding it
    genPc,       \* SpecAid: where each concurrent caller of Generate is
    genTmp,      \* SpecAid: the value a caller loaded in a.id++
    genCalls,    \* SpecAid: Generate calls each caller has started
    returned,    \* SpecAid: the ids Generate returned, in return order
    authorized,      \* a.authorized
    actionHandlers,  \* a.actionHandlers
    eventHandlers,   \* a.eventHandlers
    defaultHandler,  \* a.defaultHandler
    netErrHandler,   \* a.netErrHandler
    netErrCalls,     \* the errors netErrHandler was called with
    wire,        \* the Write calls made on conn: [m, out]
    sent,        \* number of packets the server sent (and r.Read returned)
    dPc,         \* readDispatcher: position
    dCur,        \* readDispatcher: the Message m being dispatched
    dGot,        \* readDispatcher: v, f, sd of the action lookup
    dispatched,  \* the Messages parsed by the dispatcher, in order
    tasks,       \* the handler goroutines started: [h, key, m, pc, loc, at]
    lPc,         \* Login: position
    lAid,        \* Login: aid
    lErr,        \* Login: err / the value returned
    uPc,         \* user goroutines: position
    uOp,         \* user goroutines: arguments and locals of the running call
    uRes,        \* user goroutines: what the last call returned
    uOps,        \* user goroutines: calls made
    lists,       \* the ml of every aggregator closure created: [kind, ml]
    delCalled,   \* the ActionIDs DelCallback was called with
    everSet,     \* every a.actionHandlers.set made: key -> [f, sd]
    dhMem,       \* a.defaultHandler as readDispatcher may read it: [view, unpub]
    stream,      \* codec: the bytes written to the connection and not yet read
    pbuf,        \* codec: readDispatcher's data buffer
    decoded,     \* codec: the Messages readDispatcher has built, in order
    packets,     \* codec: the packets written to the connection: [bytes, m]
    cb,          \* SpecCb: a cbList of its own
    cbLog,       \* SpecCb: the calls made on cb, in order, with what get gave
    agiIn,       \* agi: the bytes a.in has still to give
    agiLines,    \* agi: the response lines Asterisk has written
    agiOut,      \* agi: the command lines flushed to a.out
    agiEnv,      \* agi: a.Env
    agiPc,       \* agi: "new" before NewAgi, "ready" after, "panic"
    agiRes,      \* agi: what the last call returned
    agiCalls     \* agi: the calls made

aidVars == <<host, aidId, aidMu, genPc, genTmp, genCalls, returned>>

regVars == <<actionHandlers, eventHandlers, defaultHandler>>

connVars == <<wire, sent>>

dispVars == <<dPc, dCur, dGot, dispatched>>

loginVars == <<lPc, lAid, lErr>>

userVars == <<uPc, uOp, uRes, uOps>>

codecVars == <<stream, pbuf, decoded, packets>>

cbVars == <<cb, cbLog>>

agiVars == <<agiIn, agiLines, agiOut, agiEnv, agiPc, agiRes, agiCalls>>

unitVars == <<cbVars, agiVars>>

sessVars ==
    <<authorized, regVars, netErrHandler, netErrCalls, dhMem, connVars, dispVars,
      tasks, loginVars, userVars, lists, delCalled, everSet>>

vars == <<aidVars, sessVars, codecVars, unitVars>>

\* the f given to NewAsterisk(conn, f)
NetErrHandlers == {"neh"}

NoOp == [kind |-> "none"]

NoRes == [kind |-> "none", err |-> Nil, list |-> <<>>, m |-> <<>>]

\* NewAsterisk(conn, f): empty registries, a fresh Aid, authorized false
InitSession ==
    /\ authorized = FALSE
    /\ actionHandlers = EmptyCbList
    /\ eventHandlers = EmptyCbList
    /\ defaultHandler = Nil
    /\ netErrHandler \in NetErrHandlers
    /\ netErrCalls = <<>>
    /\ wire = <<>>
    /\ sent = 0
    /\ dPc = "idle"
    /\ dCur = <<>>
    /\ dGot = [v |-> "", f |-> Nil, sd |-> FALSE]
    /\ dispatched = <<>>
    /\ tasks = <<>>
    /\ lPc = "idle"
    /\ lAid = ""
    /\ lErr = Nil
    /\ uPc = [u \in Callers |-> "idle"]
    /\ uOp = [u \in Callers |-> NoOp]
    /\ uRes = [u \in Callers |-> NoRes]
    /\ uOps = [u \in Callers |-> 0]
    /\ lists = <<>>
    /\ delCalled = {}
    /\ everSet = <<>>
    /\ dhMem = [view |-> <<Nil>>, unpub |-> 0, at |-> 0]

\* the connection carries nothing the codec specification follows
IdleCodec ==
    /\ stream = <<>>
    /\ pbuf = <<>>
    /\ decoded = <<>>
    /\ packets = <<>>

NoAgiRes == [call |-> "none"]

\* no cbList of its own and no Agi beside the session
IdleUnit ==
    /\ cb = EmptyCbList
    /\ cbLog = <<>>
    /\ agiIn = <<>>
    /\ agiLines = 0
    /\ agiOut = <<>>
    /\ agiEnv = <<>>
    /\ agiPc = "none"
    /\ agiRes = NoAgiRes
    /\ agiCalls = 0

\* ------------------------------------------------------------ SpecAid
AidCallers == {"g1", "g2", "g3"}

RECURSIVE SumCalls(_, _)
SumCalls(f, S) ==
    IF S = {} THEN 0
    ELSE LET c == CHOOSE x \in S : TRUE IN f[c] + SumCalls(f, S \ {c})

InitAidVars ==
    /\ host \in {NewAidHost(hn) : hn \in Hostnames}
    /\ aidId = 0
    /\ aidMu = Nil
    /\ genPc = [c \in AidCallers |-> "idle"]
    /\ genTmp = [c \in AidCallers |-> 0]
    /\ genCalls = [c \in AidCallers |-> 0]
    /\ returned = <<>>

\* a.mu.Lock()
GenLock(c) ==
    /\ genPc[c] = "idle"
    /\ SumCalls(genCalls, AidCallers) < MaxCalls
    /\ MuFree(aidMu)
    /\ aidMu' = c
    /\ genPc' = [genPc EXCEPT ![c] = "load"]
    /\ genCalls' = [genCalls EXCEPT ![c] = @ + 1]
    /\ UNCHANGED <<host, aidId, genTmp, returned, sessVars, codecVars, unitVars>>

\* a.id++, the read
GenLoad(c) ==
    /\ genPc[c] = "load"
    /\ genTmp' = [genTmp EXCEPT ![c] = aidId]
    /\ genPc' = [genPc EXCEPT ![c] = "store"]
    /\ UNCHANGED <<host, aidId, aidMu, genCalls, returned, sessVars, codecVars, unitVars>>

\* a.id++, the write
GenStore(c) ==
    /\ genPc[c] = "store"
    /\ aidId' = AidIncr(genTmp[c])
    /\ genPc' = [genPc EXCEPT ![c] = "return"]
    /\ UNCHANGED <<host, aidMu, genTmp, genCalls, returned, sessVars, codecVars, unitVars>>

\* return a.host + "-" + fmt.Sprint(a.id), then the deferred a.mu.Unlock()
GenReturn(c) ==
    /\ genPc[c] = "return"
    /\ returned' = Append(returned, AidString(host, aidId))
    /\ aidMu' = IF aidMu = c THEN Nil ELSE aidMu
    /\ genPc' = [genPc EXCEPT ![c] = "idle"]
    /\ UNCHANGED <<host, aidId, genTmp, genCalls, sessVars, codecVars, unitVars>>

InitAid == InitAidVars /\ InitSession /\ IdleCodec /\ IdleUnit

NextAid ==
    \/ \E c \in AidCallers : GenLock(c)
    \/ \E c \in AidCallers : GenLoad(c)
    \/ \E c \in AidCallers : GenStore(c)
    \/ \E c \in AidCallers : GenReturn(c)

SpecAid == InitAid /\ [][NextAid]_vars

\* ------------------------------------------------------------ send
\* what (*a.conn).Write(buf.Bytes()) may give: all bytes and no error, an
\* error, fewer bytes and no error
WriteOutcomes == {"ok", "err", "short"}

SendErrSwallowed(out) == Nil

\* the byte count of Write left unchecked
SendErrOfWriteOnly(out) == IF out = "err" THEN ErrConnWrite ELSE Nil

\* send: the error returned for a Write outcome
SendErr(out) ==
    CASE out = "ok" -> Nil
      [] out = "err" -> ErrConnWrite
      [] out = "short" -> ErrShortWrite

\* the packets that reached the server whole
Received == SelectSeq(wire, LAMBDA w : w.out = "ok")

\* Generate() as one step: the critical section under a.mu
Generate == AidString(host, AidIncr(aidId))

\* ------------------------------------------------------------ Login
UnauthorizedNever(auth) == FALSE

\* if !a.authorized
Unauthorized(auth) == ~auth

LhfAlwaysNil(m) == Nil

LhfAlwaysMessage(m) == Get(m, "Message")

\* lhf: the value sent on lhc, nil or fmt.Errorf("%s", m["Message"])
LhfResult(m) ==
    IF Get(m, "Response") = "Success" THEN Nil ELSE Get(m, "Message")

Credentials == {[login |-> "admin", password |-> "admin"]}

\* go a.readDispatcher()
Login_start ==
    /\ lPc = "idle"
    /\ lPc' = "gen"
    /\ dPc' = "read"
    /\ dhMem' = DhStart(dhMem)
    /\ UNCHANGED <<aidVars, authorized, regVars, netErrHandler, netErrCalls,
                   codecVars, unitVars, connVars, dCur, dGot, dispatched, tasks, lAid,
                   lErr, userVars, lists, delCalled, everSet>>

\* aid := a.aid.Generate()
Login_generate ==
    /\ lPc = "gen"
    /\ aidId' = AidIncr(aidId)
    /\ lAid' = Generate
    /\ lPc' = "set"
    /\ UNCHANGED <<host, aidMu, genPc, genTmp, genCalls, returned, authorized,
                   regVars, netErrHandler, netErrCalls, dhMem, codecVars, unitVars, connVars, dispVars,
                   tasks, lErr, userVars, lists, delCalled, everSet>>

\* a.actionHandlers.set(aid, &lhf, false)
Login_set ==
    /\ lPc = "set"
    /\ actionHandlers' = set(actionHandlers, lAid, Lhf, FALSE)
    /\ lPc' = "send"
    /\ everSet' = Put(everSet, lAid, [f |-> Lhf, sd |-> FALSE])
    /\ UNCHANGED <<aidVars, authorized, eventHandlers, defaultHandler,
                   netErrHandler, netErrCalls, dhMem, codecVars, unitVars, connVars, dispVars, tasks,
                   lAid, lErr, userVars, lists, delCalled>>

\* a.send(m), the error dropped
Login_send ==
    /\ lPc = "send"
    /\ \E c \in Credentials, out \in WriteOutcomes :
          wire' = Append(wire,
                    [m |-> [Action |-> "Login", Username |-> c.login,
                            Secret |-> c.password, ActionID |-> lAid],
                     out |-> out])
    /\ lPc' = "recv"
    /\ UNCHANGED <<aidVars, authorized, regVars, netErrHandler, netErrCalls, dhMem, codecVars, unitVars,
                   sent, dispVars, tasks, lAid, lErr,
                   userVars, lists, delCalled, everSet>>

\* err := <-lhc, meeting lhc <- ... of the goroutine running lhf
Login_recv ==
    /\ lPc = "recv"
    /\ \E i \in 1..Len(tasks) :
          /\ tasks[i].h = Lhf
          /\ tasks[i].pc = "send"
          /\ lErr' = tasks[i].loc
          /\ tasks' = [tasks EXCEPT ![i].pc = "done"]
    /\ lPc' = "ret"
    /\ UNCHANGED <<aidVars, authorized, regVars, netErrHandler, netErrCalls, dhMem, codecVars, unitVars,
                   connVars, dispVars, lAid, userVars, lists, delCalled, everSet>>

\* if err != nil { return err }; a.authorized = true; return nil
Login_return ==
    /\ lPc = "ret"
    /\ authorized' = IF lErr # Nil THEN authorized ELSE TRUE
    /\ lPc' = "done"
    /\ UNCHANGED <<aidVars, regVars, netErrHandler, netErrCalls, dhMem, codecVars, unitVars, connVars,
                   dispVars, tasks, lAid, lErr, userVars, lists, delCalled, everSet>>

\* ------------------------------------------------------------ user calls
\* the Messages a caller passes to SendAction / HoldCallbackAction
UserMessages == {[Action |-> "Ping", ActionID |-> "mine"]}

EventNames == {"Hangup"}

\* the list commands: Action sent, Event that completes the list
ListKinds ==
    {[action |-> "ConfbridgeList", complete |-> "ConfbridgeListComplete"],
     [action |-> "MeetmeList", complete |-> "MeetmeListComplete"]}

Conferences == {"conf1"}

\* every packet taken for the end of the list
CljTerminalAlways(m, k) == TRUE

\* clj: the first if, the list is complete or failed
CljTerminal(m, k) ==
    \/ Get(m, "Event") = k.complete /\ Get(m, "EventList") = "Complete"
    \/ Get(m, "Response") = "Error"

\* clj after its first if: return on the start marker, else append
CljAfter(m) == IF Get(m, "EventList") = "start" THEN "done" ELSE "load"

\* the name of the closure clj (with its ml and mc) a list call creates
CljOf(u, n) == "clj:" \o u \o "#" \o Sprint(n)

Returns(u, res) ==
    /\ uRes' = [uRes EXCEPT ![u] = res]
    /\ uPc' = [uPc EXCEPT ![u] = "idle"]
    /\ uOp' = [uOp EXCEPT ![u] = NoOp]

CanCall(u) == uPc[u] = "idle" /\ uOps[u] < MaxOps

CanRegCall(u) == uPc[u] = "idle" /\ uOps[u] < MaxRegOps

\* the f given to RegisterHandler(event, f)
EventHandlerFns == {"h1", "h2"}

\* the f given to DefaultHandler(f), nil apart
DefaultHandlerFns == {"dh"}

AlreadyRegisteredNever(cbl, event) == FALSE

\* if f, _ := a.eventHandlers.get(event); f != nil
AlreadyRegistered(cbl, event) == get(cbl, event).f # Nil

\* SendAction(m, f): if !a.authorized { return fmt.Errorf("Not authorized") }
SendAction_call(u) ==
    /\ CanCall(u)
    /\ uOps' = [uOps EXCEPT ![u] = @ + 1]
    /\ \E m \in UserMessages, f \in UserHandlers \cup {Nil} :
          IF Unauthorized(authorized)
          THEN Returns(u, [kind |-> "SendAction", err |-> ErrNotAuthorized,
                           list |-> <<>>, m |-> m])
          ELSE /\ uOp' = [uOp EXCEPT ![u] =
                            [kind |-> "SendAction", m |-> m, f |-> f,
                             inst |-> Nil]]
               /\ uPc' = [uPc EXCEPT ![u] = "sa_gen"]
               /\ uRes' = uRes
    /\ UNCHANGED <<aidVars, authorized, regVars, netErrHandler, netErrCalls, dhMem, codecVars, unitVars,
                   connVars, dispVars, tasks, loginVars, lists, delCalled, everSet>>

\* Logoff(): a copy of the Asterisk is the receiver; return a.SendAction(m,
\* nil) with m the Message Action: Logoff
Logoff_call(u) ==
    /\ CanCall(u)
    /\ uOps' = [uOps EXCEPT ![u] = @ + 1]
    /\ IF Unauthorized(authorized)
       THEN Returns(u, [kind |-> "SendAction", err |-> ErrNotAuthorized,
                        list |-> <<>>, m |-> [Action |-> "Logoff"]])
       ELSE /\ uOp' = [uOp EXCEPT ![u] =
                         [kind |-> "SendAction", m |-> [Action |-> "Logoff"],
                          f |-> Nil, inst |-> Nil]]
            /\ uPc' = [uPc EXCEPT ![u] = "sa_gen"]
            /\ uRes' = uRes
    /\ UNCHANGED <<aidVars, authorized, regVars, netErrHandler, netErrCalls,
                   dhMem, codecVars, unitVars, connVars, dispVars, tasks,
                   loginVars, lists, delCalled, everSet>>

\* the write with no registration before it
AfterGenerateWrites(f) == "sa_send"

\* if f != nil { a.actionHandlers.set(...) }; return a.send(m)
AfterGenerate(f) == IF f # Nil THEN "sa_set" ELSE "sa_send"

\* m["ActionID"] = a.aid.Generate()
SendAction_generate(u) ==
    /\ uPc[u] = "sa_gen"
    /\ aidId' = AidIncr(aidId)
    /\ uOp' = [uOp EXCEPT ![u].m = Put(@, "ActionID", Generate)]
    /\ uPc' = [uPc EXCEPT ![u] = AfterGenerate(uOp[u].f)]
    /\ UNCHANGED <<host, aidMu, genPc, genTmp, genCalls, returned, authorized,
                   regVars, netErrHandler, netErrCalls, dhMem, codecVars, unitVars, connVars, dispVars,
                   tasks, loginVars, uRes, uOps, lists, delCalled, everSet>>

\* a.actionHandlers.set(m["ActionID"], f, false)
SendAction_set(u) ==
    /\ uPc[u] = "sa_set"
    /\ actionHandlers' = set(actionHandlers, uOp[u].m["ActionID"], uOp[u].f, FALSE)
    /\ uPc' = [uPc EXCEPT ![u] = "sa_send"]
    /\ everSet' = Put(everSet, uOp[u].m["ActionID"], [f |-> uOp[u].f, sd |-> FALSE])
    /\ UNCHANGED <<aidVars, authorized, eventHandlers, defaultHandler,
                   netErrHandler, netErrCalls, dhMem, codecVars, unitVars, connVars, dispVars, tasks,
                   loginVars, uOp, uRes, uOps, lists, delCalled>>

\* return a.send(m)
SendAction_send(u) ==
    /\ uPc[u] = "sa_send"
    /\ \E out \in WriteOutcomes :
          /\ wire' = Append(wire, [m |-> uOp[u].m, out |-> out])
          /\ Returns(u, [kind |-> "SendAction", err |-> SendErr(out),
                         list |-> <<>>, m |-> uOp[u].m])
    /\ UNCHANGED <<aidVars, authorized, regVars, netErrHandler, netErrCalls, dhMem, codecVars, unitVars,
                   sent, dispVars, tasks, loginVars, uOps,
                   lists, delCalled, everSet>>

\* HoldCallbackAction(m, f): if !a.authorized { return ... }; called by the
\* user (inst = Nil) or by a list call with its closure clj (f = inst)
HoldCallbackAction_check(u, kind, m, f, inst) ==
    IF Unauthorized(authorized)
    THEN Returns(u, [kind |-> kind, err |-> ErrNotAuthorized, list |-> <<>>,
                     m |-> m])
    ELSE /\ uOp' = [uOp EXCEPT ![u] =
                      [kind |-> kind, m |-> m, f |-> f, inst |-> inst]]
         /\ uPc' = [uPc EXCEPT ![u] = "hc_gen"]
         /\ uRes' = uRes

HoldCallbackAction_call(u) ==
    /\ CanCall(u)
    /\ uOps' = [uOps EXCEPT ![u] = @ + 1]
    /\ \E m \in UserMessages, f \in UserHandlers \cup {Nil} :
          HoldCallbackAction_check(u, "HoldCallbackAction", m, f, Nil)
    /\ UNCHANGED <<aidVars, authorized, regVars, netErrHandler, netErrCalls, dhMem, codecVars, unitVars,
                   connVars, dispVars, tasks, loginVars, lists, delCalled, everSet>>

NilCallbackNever(f) == FALSE

\* if f == nil
NilCallback(f) == f = Nil

\* m["ActionID"] = a.aid.Generate(); if f == nil { return ... }
HoldCallbackAction_generate(u) ==
    /\ uPc[u] = "hc_gen"
    /\ aidId' = AidIncr(aidId)
    /\ LET m == Put(uOp[u].m, "ActionID", Generate) IN
          IF NilCallback(uOp[u].f)
          THEN Returns(u, [kind |-> uOp[u].kind, err |-> ErrNilCallback,
                           list |-> <<>>, m |-> m])
          ELSE /\ uOp' = [uOp EXCEPT ![u].m = m]
               /\ uPc' = [uPc EXCEPT ![u] = "hc_set"]
               /\ uRes' = uRes
    /\ UNCHANGED <<host, aidMu, genPc, genTmp, genCalls, returned, authorized,
                   regVars, netErrHandler, netErrCalls, dhMem, codecVars, unitVars, connVars, dispVars,
                   tasks, loginVars, uOps, lists, delCalled, everSet>>

\* a.actionHandlers.set(m["ActionID"], f, true)
HoldCallbackAction_set(u) ==
    /\ uPc[u] = "hc_set"
    /\ actionHandlers' = set(actionHandlers, uOp[u].m["ActionID"], uOp[u].f, TRUE)
    /\ uPc' = [uPc EXCEPT ![u] = "hc_send"]
    /\ everSet' = Put(everSet, uOp[u].m["ActionID"], [f |-> uOp[u].f, sd |-> TRUE])
    /\ UNCHANGED <<aidVars, authorized, eventHandlers, defaultHandler,
                   netErrHandler, netErrCalls, dhMem, codecVars, unitVars, connVars, dispVars, tasks,
                   loginVars, uOp, uRes, uOps, lists, delCalled>>

\* return a.send(m); in a list call: if err != nil { return nil, err },
\* else on to <-mc
HoldCallbackAction_send(u) ==
    /\ uPc[u] = "hc_send"
    /\ \E out \in WriteOutcomes :
          /\ wire' = Append(wire, [m |-> uOp[u].m, out |-> out])
          /\ IF uOp[u].inst = Nil \/ SendErr(out) # Nil
             THEN Returns(u, [kind |-> uOp[u].kind, err |-> SendErr(out),
                              list |-> <<>>, m |-> uOp[u].m])
             ELSE /\ uPc' = [uPc EXCEPT ![u] = "recv"]
                  /\ UNCHANGED <<uOp, uRes, everSet>>
    /\ UNCHANGED <<aidVars, authorized, regVars, netErrHandler, netErrCalls, dhMem, codecVars, unitVars,
                   sent, dispVars, tasks, loginVars, uOps,
                   lists, delCalled, everSet>>

\* DelCallback(m): a.actionHandlers.del(m["ActionID"]); the caller passes
\* the Message of its HoldCallbackAction call
DelCallback_call(u) ==
    /\ uPc[u] = "idle"
    /\ uRes[u].kind = "HoldCallbackAction"
    /\ Has(uRes[u].m, "ActionID")
    /\ Get(uRes[u].m, "ActionID") \notin delCalled
    /\ uOps' = uOps
    /\ actionHandlers' = del(actionHandlers, Get(uRes[u].m, "ActionID"))
    /\ delCalled' = delCalled \cup {Get(uRes[u].m, "ActionID")}
    /\ UNCHANGED <<aidVars, authorized, eventHandlers, defaultHandler,
                   netErrHandler, netErrCalls, dhMem, codecVars, unitVars, connVars, dispVars, tasks,
                   loginVars, uPc, uOp, uRes, lists, everSet>>

\* GetConfbridgeList / GetMeetmeList(conference): m, ml, mc and clj are made,
\* then err := a.HoldCallbackAction(m, &clj)
GetList_call(u) ==
    /\ CanCall(u)
    /\ uOps' = [uOps EXCEPT ![u] = @ + 1]
    /\ \E k \in ListKinds, conf \in Conferences :
          LET inst == CljOf(u, uOps[u] + 1) IN
          /\ lists' = Put(lists, inst, [kind |-> k, ml |-> <<>>])
          /\ HoldCallbackAction_check(u, "GetList",
                [Action |-> k.action, Conference |-> conf], inst, inst)
    /\ UNCHANGED <<aidVars, authorized, regVars, netErrHandler, netErrCalls, dhMem, codecVars, unitVars,
                   connVars, dispVars, tasks, loginVars, delCalled, everSet>>

\* return <-mc, nil, meeting mc <- ml of a goroutine running clj
GetList_recv(u) ==
    /\ uPc[u] = "recv"
    /\ \E i \in 1..Len(tasks) :
          /\ tasks[i].h = uOp[u].inst
          /\ tasks[i].pc = "send"
          /\ tasks' = [tasks EXCEPT ![i].pc = CljAfter(tasks[i].m)]
          /\ Returns(u, [kind |-> "GetList", err |-> Nil,
                         list |-> tasks[i].loc, m |-> uOp[u].m])
    /\ UNCHANGED <<aidVars, authorized, regVars, netErrHandler, netErrCalls, dhMem, codecVars, unitVars,
                   connVars, dispVars, loginVars, uOps, lists, delCalled, everSet>>

\* RegisterHandler(event, f): if f, _ := a.eventHandlers.get(event); f != nil
RegisterHandler_call(u) ==
    /\ CanRegCall(u)
    /\ uOps' = [uOps EXCEPT ![u] = @ + 1]
    /\ \E e \in EventNames, f \in EventHandlerFns :
          IF AlreadyRegistered(eventHandlers, e)
          THEN Returns(u, [kind |-> "RegisterHandler",
                           err |-> "Handler already exist for event " \o e,
                           list |-> <<>>, m |-> <<>>, event |-> e, f |-> f])
          ELSE /\ uOp' = [uOp EXCEPT ![u] =
                            [kind |-> "RegisterHandler", event |-> e, f |-> f]]
               /\ uPc' = [uPc EXCEPT ![u] = "rh_set"]
               /\ uRes' = uRes
    /\ UNCHANGED <<aidVars, authorized, regVars, netErrHandler, netErrCalls,
                   dhMem, codecVars, unitVars, connVars, dispVars, tasks, loginVars,
                   lists, delCalled, everSet>>

\* a.eventHandlers.set(event, f, false); return nil
RegisterHandler_set(u) ==
    /\ uPc[u] = "rh_set"
    /\ eventHandlers' = set(eventHandlers, uOp[u].event, uOp[u].f, FALSE)
    /\ dhMem' = DhRelease(dhMem)
    /\ Returns(u, [kind |-> "RegisterHandler", err |-> Nil, list |-> <<>>,
                   m |-> <<>>, event |-> uOp[u].event, f |-> uOp[u].f])
    /\ UNCHANGED <<aidVars, authorized, actionHandlers, defaultHandler,
                   netErrHandler, netErrCalls, codecVars, unitVars, connVars, dispVars,
                   tasks, loginVars, uOps, lists, delCalled, everSet>>

\* UnregisterHandler(event): a.eventHandlers.del(event)
UnregisterHandler_call(u) ==
    /\ CanRegCall(u)
    /\ uOps' = [uOps EXCEPT ![u] = @ + 1]
    /\ \E e \in EventNames :
          /\ eventHandlers' = del(eventHandlers, e)
          /\ Returns(u, [kind |-> "UnregisterHandler", err |-> Nil,
                         list |-> <<>>, m |-> <<>>, event |-> e, f |-> Nil])
    /\ dhMem' = DhRelease(dhMem)
    /\ UNCHANGED <<aidVars, authorized, actionHandlers, defaultHandler,
                   netErrHandler, netErrCalls, codecVars, unitVars, connVars, dispVars,
                   tasks, loginVars, lists, delCalled, everSet>>

\* DefaultHandler(f): a.defaultHandler = f
DefaultHandler_call(u) ==
    /\ CanRegCall(u)
    /\ uOps' = [uOps EXCEPT ![u] = @ + 1]
    /\ \E f \in DefaultHandlerFns \cup {Nil} :
          /\ defaultHandler' = f
          /\ dhMem' = DhWrite(dhMem, f, Len(dispatched))
          /\ Returns(u, [kind |-> "DefaultHandler", err |-> Nil,
                         list |-> <<>>, m |-> <<>>, event |-> "", f |-> f])
    /\ UNCHANGED <<aidVars, authorized, actionHandlers, eventHandlers,
                   netErrHandler, netErrCalls, codecVars, unitVars, connVars, dispVars,
                   tasks, loginVars, lists, delCalled, everSet>>

\* ------------------------------------------------------------ the server
ServerEvents == {"Hangup"}

ListActions == {k.action : k \in ListKinds}

KindOf(action) == CHOOSE k \in ListKinds : k.action = action

\* what a server may send about a request it received whole, and the
\* events it may send unasked; n numbers the items of a list
RepliesTo(w, n) ==
    LET id == Get(w, "ActionID") IN
    IF Get(w, "Action") = "Login"
    THEN {[Response |-> "Success", Message |-> "Authentication accepted",
           ActionID |-> id],
          [Response |-> "Error", Message |-> "Authentication failed",
           ActionID |-> id],
          [Response |-> "Failed", ActionID |-> id]}
    ELSE IF Get(w, "Action") \in ListActions
    THEN {[Response |-> "Success", EventList |-> "start", ActionID |-> id],
          [Event |-> Get(w, "Action"), Channel |-> "ch" \o Sprint(n),
           ActionID |-> id],
          [Event |-> KindOf(Get(w, "Action")).complete,
           EventList |-> "Complete", ActionID |-> id],
          [Response |-> "Error", Message |-> "No such conference",
           ActionID |-> id]}
    ELSE {[Response |-> "Success", Message |-> "Pong", ActionID |-> id]}

\* the server answers a Login once
Answerable(w) ==
    Get(w, "Action") = "Login" =>
        \A j \in 1..Len(dispatched) :
            Get(dispatched[j], "ActionID") # Get(w, "ActionID")

\* what the next packet from the server may be
ServerPackets ==
    UNION {RepliesTo(Received[i].m, sent + 1) :
             i \in {j \in 1..Len(Received) : Answerable(Received[j].m)}}
      \cup {[Event |-> e] : e \in ServerEvents}

\* ------------------------------------------------------------ handler goroutines
\* where a goroutine started for handler h with Message m begins
EntryPc(h, m) ==
    IF h = Lhf THEN "send"
    ELSE IF h \in DOMAIN lists
    THEN IF CljTerminal(m, lists[h].kind) THEN "del" ELSE CljAfter(m)
    ELSE "run"

\* the goroutine put ahead of the ones started before it
SpawnFront(h, via) ==
    <<[h |-> h, via |-> via, m |-> dCur, at |-> Len(dispatched),
       pc |-> EntryPc(h, dCur),
       loc |-> IF h = Lhf THEN LhfResult(dCur) ELSE <<>>]>> \o tasks

\* go (*f)(m)
Spawn(h, via) ==
    Append(tasks, [h |-> h, via |-> via, m |-> dCur, at |-> Len(dispatched),
                   pc |-> EntryPc(h, dCur),
                   loc |-> IF h = Lhf THEN LhfResult(dCur) ELSE <<>>])

\* a user handler runs (it may as well never return)
Handler_run(i) ==
    /\ tasks[i].pc = "run"
    /\ tasks' = [tasks EXCEPT ![i].pc = "done"]
    /\ UNCHANGED <<aidVars, authorized, regVars, netErrHandler, netErrCalls, dhMem, codecVars, unitVars,
                   connVars, dispVars, loginVars, userVars, lists, delCalled, everSet>>

\* clj: a.DelCallback(m)
Clj_del(i) ==
    /\ tasks[i].pc = "del"
    /\ actionHandlers' = del(actionHandlers, Get(tasks[i].m, "ActionID"))
    /\ delCalled' = delCalled \cup {Get(tasks[i].m, "ActionID")}
    /\ tasks' = [tasks EXCEPT ![i].pc = "capture"]
    /\ UNCHANGED <<aidVars, authorized, eventHandlers, defaultHandler,
                   netErrHandler, netErrCalls, dhMem, codecVars, unitVars, connVars, dispVars, loginVars,
                   userVars, lists, everSet>>

\* clj: mc <- ml, the operand ml is read; the send then waits for <-mc
Clj_capture(i) ==
    /\ tasks[i].pc = "capture"
    /\ tasks' = [tasks EXCEPT ![i].pc = "send", ![i].loc = lists[tasks[i].h].ml]
    /\ UNCHANGED <<aidVars, authorized, regVars, netErrHandler, netErrCalls, dhMem, codecVars, unitVars,
                   connVars, dispVars, loginVars, userVars, lists, delCalled, everSet>>

\* clj: ml = append(ml, m), the read of ml (the goroutines share ml unlocked)
Clj_load(i) ==
    /\ tasks[i].pc = "load"
    /\ tasks' = [tasks EXCEPT ![i].pc = "store", ![i].loc = lists[tasks[i].h].ml]
    /\ UNCHANGED <<aidVars, authorized, regVars, netErrHandler, netErrCalls, dhMem, codecVars, unitVars,
                   connVars, dispVars, loginVars, userVars, lists, delCalled, everSet>>

\* clj: ml = append(ml, m), the write
Clj_store(i) ==
    /\ tasks[i].pc = "store"
    /\ lists' = [lists EXCEPT ![tasks[i].h].ml = Append(tasks[i].loc, tasks[i].m)]
    /\ tasks' = [tasks EXCEPT ![i].pc = "done", ![i].loc = <<>>]
    /\ UNCHANGED <<aidVars, authorized, regVars, netErrHandler, netErrCalls, dhMem, codecVars, unitVars,
                   connVars, dispVars, loginVars, userVars, delCalled, everSet>>

\* ------------------------------------------------------------ readDispatcher
\* (*f)(m) called in readDispatcher itself, which then goes on only when f
\* returns
AfterGoJoins(next) == "join"

\* go (*f)(m): readDispatcher goes on at once, whatever the goroutine does
AfterGo(next) == next

DeletesAlways(sd) == TRUE

DeletesNever(sd) == FALSE

\* if !sd { a.actionHandlers.del(v) }
Deletes(sd) == ~sd

\* the event lookup as the else branch of the action lookup
StageFromElse(stage, m) ==
    IF stage = "action" /\ Has(m, "ActionID") THEN "action"
    ELSE IF stage = "action" /\ Has(m, "Event") THEN "event"
    ELSE "default"

\* the stage of the loop body that next touches shared state for m: the
\* action lookup needs an ActionID, the event lookup an Event
StageFrom(stage, m) ==
    IF stage = "action" /\ Has(m, "ActionID") THEN "action"
    ELSE IF stage \in {"action", "event"} /\ Has(m, "Event") THEN "event"
    ELSE "default"

\* r.Read gives the bytes of the next packet the server sent; it is cut from
\* pbuf and parsed into m
Disp_read ==
    /\ dPc = "read"
    /\ sent < MaxPackets
    /\ \E p \in ServerPackets :
          /\ dCur' = p
          /\ dispatched' = Append(dispatched, p)
          /\ dPc' = StageFrom("action", p)
    /\ sent' = sent + 1
    /\ UNCHANGED <<aidVars, authorized, regVars, netErrHandler, netErrCalls, dhMem, codecVars, unitVars,
                   wire, dGot, tasks, loginVars, userVars, lists, delCalled, everSet>>

ReadErrorLoops == "read"

\* return, after the network error callback: readDispatcher is over
ReadErrorNext == "done"

\* r.Read gives an error: a.authorized = false, the network error callback
\* is run, return
Disp_readError ==
    /\ dPc = "read"
    /\ authorized' = FALSE
    /\ netErrCalls' = IF netErrHandler # Nil THEN Append(netErrCalls, "EOF")
                      ELSE netErrCalls
    /\ dPc' = ReadErrorNext
    /\ UNCHANGED <<aidVars, regVars, netErrHandler, dhMem, codecVars, unitVars, connVars,
                   dCur, dGot,
                   dispatched, tasks, loginVars, userVars, lists, delCalled, everSet>>

\* if v, vok := m["ActionID"]; vok { if f, sd := get(v); f != nil { go (*f)(m)
Disp_action ==
    /\ dPc = "action"
    /\ LET v == Get(dCur, "ActionID")
           g == get(actionHandlers, v) IN
          IF g.f # Nil
          THEN /\ tasks' = Spawn(g.f, "action")
               /\ dGot' = [v |-> v, f |-> g.f, sd |-> g.sd]
               /\ dPc' = AfterGo(IF Deletes(g.sd) THEN "del"
                                 ELSE StageFrom("event", dCur))
          ELSE /\ dPc' = StageFrom("event", dCur)
               /\ UNCHANGED <<tasks, dGot, everSet>>
    /\ UNCHANGED <<aidVars, authorized, regVars, netErrHandler, netErrCalls, dhMem, codecVars, unitVars,
                   connVars, dCur, dispatched, loginVars, userVars, lists,
                   delCalled, everSet>>

\* a.actionHandlers.del(v)
Disp_del ==
    /\ dPc = "del"
    /\ actionHandlers' = del(actionHandlers, dGot.v)
    /\ dPc' = StageFrom("event", dCur)
    /\ UNCHANGED <<aidVars, authorized, eventHandlers, defaultHandler,
                   netErrHandler, netErrCalls, dhMem, codecVars, unitVars, connVars, dCur, dGot,
                   dispatched, tasks, loginVars, userVars, lists, delCalled, everSet>>

\* if v, vok := m["Event"]; vok { if f, _ := get(v); f != nil { go (*f)(m)
Disp_event ==
    /\ dPc = "event"
    /\ LET g == get(eventHandlers, Get(dCur, "Event")) IN
          IF g.f # Nil
          THEN /\ tasks' = Spawn(g.f, "event")
               /\ dPc' = AfterGo("default")
          ELSE /\ tasks' = tasks
               /\ dPc' = "default"
    /\ dhMem' = DhAcquire(dhMem)
    /\ UNCHANGED <<aidVars, authorized, regVars, netErrHandler, netErrCalls,
                   codecVars, unitVars, connVars, dCur, dGot, dispatched, loginVars,
                   userVars, lists, delCalled, everSet>>

\* if a.defaultHandler != nil
Disp_default ==
    /\ dPc = "default"
    /\ \E i \in DhReadable(dhMem) :
          /\ dhMem' = DhRead(dhMem, i)
          /\ dPc' = IF dhMem.view[i] # Nil THEN "go" ELSE "read"
    /\ UNCHANGED <<aidVars, authorized, regVars, netErrHandler, netErrCalls,
                   codecVars, unitVars, connVars, dCur, dGot, dispatched, tasks,
                   loginVars, userVars, lists, delCalled, everSet>>

\* go (*a.defaultHandler)(m): a.defaultHandler is read again; the call
\* through a nil pointer panics in readDispatcher
Disp_defaultGo ==
    /\ dPc = "go"
    /\ \E i \in DhReadable(dhMem) :
          /\ dhMem' = DhRead(dhMem, i)
          /\ IF dhMem.view[i] # Nil
             THEN /\ tasks' = Spawn(dhMem.view[i], "default")
                  /\ dPc' = AfterGo("read")
             ELSE /\ tasks' = tasks
                  /\ dPc' = "panic"
    /\ UNCHANGED <<aidVars, authorized, regVars, netErrHandler, netErrCalls,
                   codecVars, unitVars, connVars, dCur, dGot, dispatched, loginVars,
                   userVars, lists, delCalled, everSet>>

\* ------------------------------------------------------------ Spec
Init ==
    /\ InitAidVars
    /\ host = NewAidHost("")
    /\ InitSession
    /\ IdleCodec
    /\ IdleUnit

Next ==
    \/ Login_start
    \/ Login_generate
    \/ Login_set
    \/ Login_send
    \/ Login_recv
    \/ Login_return
    \/ \E u \in Users : SendAction_call(u)
    \/ \E u \in Users : SendAction_generate(u)
    \/ \E u \in Users : SendAction_set(u)
    \/ \E u \in Users : SendAction_send(u)
    \/ \E u \in Users : HoldCallbackAction_call(u)
    \/ \E u \in Users : HoldCallbackAction_generate(u)
    \/ \E u \in Users : HoldCallbackAction_set(u)
    \/ \E u \in Users : HoldCallbackAction_send(u)
    \/ \E u \in Users : DelCallback_call(u)
    \/ \E u \in Users : GetList_call(u)
    \/ \E u \in Users : GetList_recv(u)
    \/ \E i \in 1..Len(tasks) : Handler_run(i)
    \/ \E i \in 1..Len(tasks) : Clj_del(i)
    \/ \E i \in 1..Len(tasks) : Clj_capture(i)
    \/ \E i \in 1..Len(tasks) : Clj_load(i)
    \/ \E i \in 1..Len(tasks) : Clj_store(i)
    \/ Disp_read
    \/ Disp_readError
    \/ Disp_action
    \/ Disp_del
    \/ Disp_event
    \/ Disp_default

Spec == Init /\ [][Next]_vars

\* Spec with readDispatcher a goroutine the runtime keeps scheduling: a stage
\* of its loop body that can be taken is taken.  Nothing is assumed of the
\* handler goroutines, the callers or the server: a handler may stay where
\* it is for ever.
SpecFair ==
    /\ Spec
    /\ WF_vars(Disp_action)
    /\ WF_vars(Disp_del)
    /\ WF_vars(Disp_event)
    /\ WF_vars(Disp_default)

\* the session with the event registry and the default handler in use: Login
\* and the dispatcher as in Spec, the user goroutine making registry calls;
\* the handlers started are left running
NextEvents ==
    \/ Login_start
    \/ Login_generate
    \/ Login_set
    \/ Login_send
    \/ Login_recv
    \/ Login_return
    \/ Disp_read
    \/ Disp_readError
    \/ Disp_action
    \/ Disp_del
    \/ Disp_event
    \/ Disp_default
    \/ Disp_defaultGo
    \/ \E u \in Users : RegisterHandler_call(u)
    \/ \E u \in Users : RegisterHandler_set(u)
    \/ \E u \in Users : UnregisterHandler_call(u)
    \/ \E u \in Users : DefaultHandler_call(u)

SpecEvents == Init /\ [][NextEvents]_vars

\* the session with Login, the whole dispatcher and the calls SendAction,
\* HoldCallbackAction, DelCallback, Logoff and those of the event registry;
\* the handlers started are left running
NextAuth ==
    \/ Login_start
    \/ Login_generate
    \/ Login_set
    \/ Login_send
    \/ Login_recv
    \/ Login_return
    \/ Disp_read
    \/ Disp_readError
    \/ Disp_action
    \/ Disp_del
    \/ Disp_event
    \/ Disp_default
    \/ Disp_defaultGo
    \/ \E u \in Users : SendAction_call(u)
    \/ \E u \in Users : SendAction_generate(u)
    \/ \E u \in Users : SendAction_set(u)
    \/ \E u \in Users : SendAction_send(u)
    \/ \E u \in Users : HoldCallbackAction_call(u)
    \/ \E u \in Users : HoldCallbackAction_generate(u)
    \/ \E u \in Users : HoldCallbackAction_set(u)
    \/ \E u \in Users : HoldCallbackAction_send(u)
    \/ \E u \in Users : DelCallback_call(u)
    \/ \E u \in Users : Logoff_call(u)
    \/ \E u \in Users : RegisterHandler_call(u)
    \/ \E u \in Users : RegisterHandler_set(u)
    \/ \E u \in Users : UnregisterHandler_call(u)
    \/ \E u \in Users : DefaultHandler_call(u)

SpecAuth == Init /\ [][NextAuth]_vars

\* a server that answers a request by the request itself with an Event header
\* put in, the ActionID kept: the packet names a correlation ID and an event
EchoPackets ==
    {[Action |-> Get(Received[i].m, "Action"),
      ActionID |-> Get(Received[i].m, "ActionID"),
      Event |-> e] :
        i \in {j \in 1..Len(Received) : Get(Received[j].m, "Action") # "Login"},
        e \in ServerEvents}

\* r.Read gives the bytes of an echoed request
Disp_readEcho ==
    /\ dPc = "read"
    /\ sent < MaxPackets
    /\ \E p \in EchoPackets :
          /\ dCur' = p
          /\ dispatched' = Append(dispatched, p)
          /\ dPc' = StageFrom("action", p)
    /\ sent' = sent + 1
    /\ UNCHANGED <<aidVars, authorized, regVars, netErrHandler, netErrCalls,
                   dhMem, codecVars, unitVars, wire, dGot, tasks, loginVars,
                   userVars, lists, delCalled, everSet>>

\* the session with a server that echoes: Login, SendAction, RegisterHandler
\* and the dispatcher; the handlers started are left running
NextEcho ==
    \/ Login_start
    \/ Login_generate
    \/ Login_set
    \/ Login_send
    \/ Login_recv
    \/ Login_return
    \/ Disp_read
    \/ Disp_readEcho
    \/ Disp_readError
    \/ Disp_action
    \/ Disp_del
    \/ Disp_event
    \/ Disp_default
    \/ \E u \in Users : SendAction_call(u)
    \/ \E u \in Users : SendAction_generate(u)
    \/ \E u \in Users : SendAction_set(u)
    \/ \E u \in Users : SendAction_send(u)
    \/ \E u \in Users : RegisterHandler_call(u)
    \/ \E u \in Users : RegisterHandler_set(u)

SpecEcho == Init /\ [][NextEcho]_vars

\* the event registry of one session used by two goroutines at once
NextReg ==
    \/ \E u \in Callers : RegisterHandler_call(u)
    \/ \E u \in Callers : RegisterHandler_set(u)
    \/ \E u \in Callers : UnregisterHandler_call(u)

SpecReg == Init /\ [][NextReg]_vars

\* ------------------------------------------------------------ the frame codec
\* Bytes are sequences of one-character strings.  A Go string is its bytes:
\* the Messages given to send here have sequences for their names and
\* values, and string(b) of the decoder is Str(b).
_LINE_TERM == <<"\r", "\n">>

_KEY_VAL_TERM == <<":">>

_PT_BYTES == _LINE_TERM \o _LINE_TERM

_READ_BUF == 512

RECURSIVE Str(_)
\* string(b)
Str(b) == IF b = <<>> THEN "" ELSE Head(b) \o Str(Tail(b))

\* bytes.Index(b, sep): the first position of sep in b, counted from 1;
\* 0 for the -1 of Go
Index(b, sep) ==
    LET at == {i \in 1..(Len(b) - Len(sep) + 1) :
                  SubSeq(b, i, i + Len(sep) - 1) = sep} IN
    IF at = {} THEN 0 ELSE CHOOSE i \in at : \A j \in at : i <= j

RECURSIVE Split(_, _)
\* bytes.Split(b, sep): all the parts of b between the occurrences of sep
Split(b, sep) ==
    LET i == Index(b, sep) IN
    IF i = 0 THEN <<b>>
    ELSE <<SubSeq(b, 1, i - 1)>> \o Split(SubSeq(b, i + Len(sep), Len(b)), sep)

IsSpace(c) == c \in {" ", "\t", "\n", "\r", "\f"}

RECURSIVE TrimLeft(_)
TrimLeft(b) ==
    IF b # <<>> /\ IsSpace(Head(b)) THEN TrimLeft(Tail(b)) ELSE b

RECURSIVE TrimRight(_)
TrimRight(b) ==
    IF b # <<>> /\ IsSpace(b[Len(b)]) THEN TrimRight(SubSeq(b, 1, Len(b) - 1))
    ELSE b

\* bytes.TrimSpace(b)
TrimSpace(b) == TrimRight(TrimLeft(b))

CmdReplace(old, line) == Str(line)

\* m["CmdData"] += string(line)
CmdAppend(old, line) == old \o Str(line)

\* the body of the loop over the lines of a packet
ParseLine(m, line) ==
    IF Len(line) = 0 THEN m
    ELSE LET kvl == Split(line, _KEY_VAL_TERM) IN
         IF Len(kvl) = 1
         THEN IF ~(Str(line) = _CMD_END)
              THEN Put(m, "CmdData", CmdAppend(Get(m, "CmdData"), line))
              ELSE m
         ELSE Put(m, Str(TrimSpace(kvl[1])), Str(TrimSpace(kvl[2])))

RECURSIVE ParseLines(_, _)
ParseLines(m, lines) ==
    IF lines = <<>> THEN m
    ELSE ParseLines(ParseLine(m, Head(lines)), Tail(lines))

\* m := make(Message); for _, line := range bytes.Split(bp, _LINE_TERM)
Parse(bp) == ParseLines(<<>>, Split(bp, _LINE_TERM))

PbufWriteReset(buf, chunk) == chunk

\* pbuf.Write(buf[:rc])
PbufWrite(buf, chunk) == buf \o chunk

RECURSIVE Drain(_, _)
\* the loop while pbuf holds the end of a packet: the packet is read out of
\* pbuf and parsed; gives the Messages built and what pbuf is left with
Drain(buf, out) ==
    LET pos == Index(buf, _PT_BYTES) IN
    IF pos = 0 THEN [msgs |-> out, rest |-> buf]
    ELSE LET n == pos - 1 + Len(_PT_BYTES) IN
         Drain(SubSeq(buf, n + 1, Len(buf)),
               Append(out, Parse(SubSeq(buf, 1, n))))

\* the orders in which range m may visit the keys in S
RECURSIVE Orders(_)
Orders(S) ==
    IF S = {} THEN {<<>>}
    ELSE UNION {{<<k>> \o o : o \in Orders(S \ {k})} : k \in S}

RECURSIVE Encode(_, _)
\* send: k, ":", v, "\r\n" for the keys in the order given, then "\r\n"
Encode(m, order) ==
    IF order = <<>> THEN _LINE_TERM
    ELSE Head(order) \o _KEY_VAL_TERM \o m[Head(order)] \o _LINE_TERM
             \o Encode(m, Tail(order))

\* the Message of strings that m, of byte sequences, is
AsMessage(m) ==
    [k \in {Str(b) : b \in DOMAIN m} |->
        Str(m[CHOOSE b \in DOMAIN m : Str(b) = k])]

\* Messages given to send
CodecMessages ==
    {(<<"A">> :> <<"1">>) @@ (<<"B">> :> <<"2">>),
     (<<"A", "c", "t", "i", "o", "n">> :> <<"P", "i", "n", "g">>),
     (<<"T">> :> <<"1", ":", "2">>)}

\* a command's output as the server sends it
CommandPacket ==
    <<"2", "0", "0", " ", "r", "e", "s", "u", "l", "t", "=", "1", "\r", "\n",
      "s", "o", "m", "e", " ", "o", "u", "t", "p", "u", "t", "\r", "\n", "-",
      "-", "E", "N", "D", " ", "C", "O", "M", "M", "A", "N", "D", "-", "-",
      "\r", "\n", "\r", "\n">>

\* packets the server sends
ServerBytes ==
    {CommandPacket,
     <<"C", "h", "a", "n", "n", "e", "l", ":", " ", "S", "I", "P", "/", "a",
      ":", "5", "\r", "\n", "\r", "\n">>}

\* send(m) on a connection whose peer sends the bytes back
Codec_send ==
    /\ Len(packets) < MaxFrames
    /\ \E m \in CodecMessages :
          \E order \in Orders(DOMAIN m) :
             /\ stream' = stream \o Encode(m, order)
             /\ packets' = Append(packets, [bytes |-> Encode(m, order),
                                            kind |-> "send",
                                            m |-> AsMessage(m)])
    /\ UNCHANGED <<aidVars, sessVars, unitVars, pbuf, decoded>>

\* the server writes a packet
Codec_serverWrite ==
    /\ Len(packets) < MaxFrames
    /\ \E b \in ServerBytes :
          /\ stream' = stream \o b
          /\ packets' = Append(packets, [bytes |-> b, kind |-> "server",
                                         m |-> <<>>])
    /\ UNCHANGED <<aidVars, sessVars, unitVars, pbuf, decoded>>

\* rc, err := r.Read(buf) gives the next rc bytes, 1 <= rc <= len(buf); they
\* are written to pbuf and every whole packet in pbuf is parsed
Codec_read ==
    /\ stream # <<>>
    /\ \E rc \in 1..(IF Len(stream) < _READ_BUF THEN Len(stream) ELSE _READ_BUF) :
          LET d == Drain(PbufWrite(pbuf, SubSeq(stream, 1, rc)), <<>>) IN
          /\ stream' = SubSeq(stream, rc + 1, Len(stream))
          /\ pbuf' = d.rest
          /\ decoded' = decoded \o d.msgs
    /\ UNCHANGED <<aidVars, sessVars, unitVars, packets>>

InitCodec ==
    /\ InitAidVars
    /\ host = NewAidHost("")
    /\ InitSession
    /\ IdleCodec
    /\ IdleUnit

NextCodec ==
    \/ Codec_send
    \/ Codec_serverWrite
    \/ Codec_read

SpecCodec == InitCodec /\ [][NextCodec]_vars

\* C3: all ids returned by concurrent Generate() calls on one Aid are
\* pairwise distinct.
C3_GenerateDistinct ==
    \A i, j \in 1..Len(returned) : i # j => returned[i] # returned[j]

\* two callers are inside or past overlapping calls and ids were returned
C3_Witness ==
    /\ Len(returned) >= 3
    /\ Cardinality({c \in AidCallers : genCalls[c] > 0}) >= 2
    /\ \E c \in AidCallers : genPc[c] = "load"

DecimalText ==
    <<"1", "2", "3", "4", "5", "6", "7", "8", "9", "10", "11", "12", "13", "14">>

\* C4: on a fresh Aid the k-th Generate() call to return gives "<host>-k":
\* the first "<host>-1", each later one a suffix one greater.
C4_GenerateSequential ==
    \A k \in 1..Len(returned) :
        k <= Len(DecimalText) => returned[k] = host \o "-" \o DecimalText[k]

\* one caller alone has made every call, ten of them or more
C4_Witness ==
    /\ Len(returned) >= 10
    /\ genCalls["g1"] = Len(returned)
    /\ returned[1] = host \o "-1"
    /\ returned[10] = host \o "-10"

\* ------------------------------------------------------------ the session's claims
\* the packets dispatched so far that carry ActionID id, in order
Replies(id) == SelectSeq(dispatched, LAMBDA p : Get(p, "ActionID") = id)

\* the packets whose action lookup the dispatcher has done
Looked == IF dPc = "action" THEN Len(dispatched) - 1 ELSE Len(dispatched)

\* the positions of the looked-up packets that carry ActionID id
LookedWith(id) ==
    {j \in 1..Looked : Get(dispatched[j], "ActionID") = id}

\* the handler goroutines the action lookup started for ActionID id
StartedFor(id) ==
    {i \in 1..Len(tasks) :
        tasks[i].via = "action" /\ Get(tasks[i].m, "ActionID") = id}

Min(S) == CHOOSE x \in S : \A y \in S : x <= y

\* C1: once the read side of the connection has failed (readDispatcher
\* has returned), authorized is false in every later state.
C1_UnauthorizedAfterReadFailure == dPc = "done" => ~authorized

\* the list call of u has returned a list
ListReturned(u) == uRes[u].kind = "GetList" /\ uRes[u].err = Nil

IsData(p) == ~Has(p, "EventList") /\ ~Has(p, "Response")

IsComplete(p) == Has(p, "Event") /\ Get(p, "EventList") = "Complete"

\* the reply to request id so far is data packets and then one completion
DataThenComplete(id) ==
    LET r == Replies(id) IN
    /\ Len(r) >= 1
    /\ IsComplete(r[Len(r)])
    /\ \A j \in 1..(Len(r) - 1) : IsData(r[j])

\* C2: a list call whose reply is N data packets and then one completion
\* packet returns exactly the N data packets, in arrival order, without the
\* completion packet, however the handler goroutines are scheduled.
C2_ListIsTheDataPackets ==
    \A u \in Users :
        ListReturned(u) /\ DataThenComplete(Get(uRes[u].m, "ActionID")) =>
            LET r == Replies(Get(uRes[u].m, "ActionID")) IN
            uRes[u].list = SubSeq(r, 1, Len(r) - 1)

\* C5: a SendAction / HoldCallbackAction call (also the one inside a list
\* call) made while authorized is false returns "Not authorized" at once:
\* nothing is written on the connection and nothing is registered.
C5_UnauthorizedCallDoesNothing ==
    [][\A u \in Users :
          (/\ ~authorized
           /\ \/ SendAction_call(u)
              \/ HoldCallbackAction_call(u)
              \/ GetList_call(u))
          => /\ uRes'[u].err = ErrNotAuthorized
             /\ uPc'[u] = "idle"
             /\ wire' = wire
             /\ actionHandlers' = actionHandlers
             /\ everSet' = everSet]_vars

\* a call on the fresh, never logged in session was refused
C5_Witness ==
    /\ lPc = "idle"
    /\ \E u \in Users : uRes[u].err = ErrNotAuthorized
    /\ wire = <<>>
    /\ actionHandlers = EmptyCbList

\* the server's answer to the Login action, if it was dispatched
LoginAnswered == lAid # "" /\ Replies(lAid) # <<>>

LoginAnswer == Replies(lAid)[1]

\* C6: when the server answers Login with the same ActionID and Response
\* "Success", Login returns no error, and authorized is true as it returns.
C6_LoginSuccess ==
    /\ [](lPc = "done" /\ LoginAnswered
            /\ Get(LoginAnswer, "Response") = "Success" => lErr = Nil)
    /\ [][lPc = "ret" /\ lPc' = "done" /\ LoginAnswered
            /\ Get(LoginAnswer, "Response") = "Success" => authorized']_vars

C6_Witness ==
    /\ lPc = "done"
    /\ LoginAnswered
    /\ Get(LoginAnswer, "Response") = "Success"
    /\ lErr = Nil
    /\ authorized

\* C7: when the server answers Login with a Response other than "Success",
\* Login returns an error whose text is the packet's Message header and
\* authorized stays false.
C7_LoginRejected ==
    LoginAnswered /\ Get(LoginAnswer, "Response") # "Success" =>
        /\ ~authorized
        /\ lPc = "done" => lErr # Nil /\ lErr = Get(LoginAnswer, "Message")

C7_Witness ==
    /\ lPc = "done"
    /\ LoginAnswered
    /\ Get(LoginAnswer, "Response") = "Error"
    /\ lErr = "Authentication failed"

\* the ActionIDs under which SendAction registered a handler
SendActionKeys ==
    {k \in DOMAIN everSet : ~everSet[k].sd /\ everSet[k].f \in UserHandlers}

\* C8: a handler given to SendAction is started exactly once, with the first
\* dispatched packet that carries the request's ActionID; later packets with
\* that ActionID do not start it again.
C8_HandlerOnce ==
    \A k \in SendActionKeys :
        IF LookedWith(k) = {} THEN StartedFor(k) = {}
        ELSE /\ Cardinality(StartedFor(k)) = 1
             /\ \A i \in StartedFor(k) :
                   /\ tasks[i].h = everSet[k].f
                   /\ tasks[i].at = Min(LookedWith(k))
                   /\ tasks[i].m = dispatched[tasks[i].at]

\* two packets with the ActionID of a SendAction request were dispatched
C8_Witness ==
    \E k \in SendActionKeys :
        /\ Cardinality(LookedWith(k)) >= 2
        /\ dPc = "read"
        /\ Cardinality(StartedFor(k)) = 1

\* C9: once the dispatcher has dispatched a packet that matched an entry
\* registered with retain = false, a lookup of that key gives nothing: the
\* dispatcher removes it right after the lookup, whether or not the handler
\* has returned.
C9_NonRetainedRemoved ==
    \A i \in 1..Len(tasks) :
        LET k == Get(tasks[i].m, "ActionID") IN
        (/\ tasks[i].via = "action"
         /\ ~everSet[k].sd
         /\ ~(dPc = "del" /\ tasks[i].at = Len(dispatched)))
        => /\ k \notin DOMAIN actionHandlers.f
           /\ k \notin DOMAIN actionHandlers.sd
           /\ get(actionHandlers, k).f = Nil

\* the entry is gone while the handler started for it has not returned
C9_Witness ==
    \E i \in 1..Len(tasks) :
        /\ tasks[i].via = "action"
        /\ tasks[i].h \in UserHandlers
        /\ ~everSet[Get(tasks[i].m, "ActionID")].sd
        /\ tasks[i].pc = "run"
        /\ dPc = "default"
        /\ get(actionHandlers, Get(tasks[i].m, "ActionID")).f = Nil

RetainedKeys == {k \in DOMAIN everSet : everSet[k].sd}

\* C10: an entry registered with retain = true is not removed by the
\* dispatcher: until DelCallback is called for its ActionID it is present
\* and every dispatched packet with that ActionID starts its handler.
C10_RetainedKept ==
    /\ [](\A k \in RetainedKeys \ delCalled :
            /\ get(actionHandlers, k) = everSet[k]
            /\ Cardinality(StartedFor(k)) = Cardinality(LookedWith(k))
            /\ \A j \in LookedWith(k) :
                  \E i \in StartedFor(k) :
                      tasks[i].at = j /\ tasks[i].h = everSet[k].f)
    /\ [][\A k \in RetainedKeys :
            k \in DOMAIN actionHandlers.f /\ k \notin DOMAIN actionHandlers'.f
                => k \in delCalled']_vars

\* a retained entry is present after two matching packets were dispatched
C10_Witness ==
    \E k \in RetainedKeys \ delCalled :
        /\ Cardinality(LookedWith(k)) >= 2
        /\ Cardinality(StartedFor(k)) >= 2
        /\ dPc = "read"
        /\ get(actionHandlers, k).f # Nil

\* ------------------------------------------------------------ the registries' claims
\* the event a RegisterHandler call step of u was made with
RegEvent(pc, op, res, u) ==
    IF pc[u] = "rh_set" THEN op[u].event ELSE res[u].event

\* C11: RegisterHandler(e, H2) called while e has a handler H1 registered
\* returns the "already exist" error and leaves H1 the handler of e.
C11_DuplicateRegistration ==
    [][\A u \in Users, e \in EventNames :
          (/\ RegisterHandler_call(u)
           /\ RegEvent(uPc', uOp', uRes', u) = e
           /\ get(eventHandlers, e).f # Nil)
          => /\ uPc'[u] = "idle"
             /\ uRes'[u].kind = "RegisterHandler"
             /\ uRes'[u].err = "Handler already exist for event " \o e
             /\ get(eventHandlers', e) = get(eventHandlers, e)]_vars

\* H2 was refused for an event whose handler is H1
C11_Witness ==
    \E u \in Users :
        /\ uRes[u].kind = "RegisterHandler"
        /\ uRes[u].err = "Handler already exist for event Hangup"
        /\ uRes[u].f = "h2"
        /\ get(eventHandlers, "Hangup").f = "h1"

\* the handler goroutines the event lookup started
EventTasks == {i \in 1..Len(tasks) : tasks[i].via = "event"}

\* C12: the dispatcher never changes the event registry, and a packet whose
\* Event has an entry at the event lookup starts its handler; after
\* UnregisterHandler(e) has returned the entry is gone, an event lookup for e
\* starts nothing, and a RegisterHandler(e, f) then made registers f and
\* returns nil.
C12_EventHandlerLifetime ==
    /\ [][eventHandlers' # eventHandlers =>
            \E u \in Users : RegisterHandler_set(u) \/ UnregisterHandler_call(u)]_vars
    /\ [][dPc = "event" /\ dPc' # "event" =>
            LET f == get(eventHandlers, Get(dCur, "Event")).f IN
            IF f # Nil
            THEN /\ Len(tasks') = Len(tasks) + 1
                 /\ Last(tasks').h = f
                 /\ Last(tasks').m = dCur
                 /\ SubSeq(tasks', 1, Len(tasks)) = tasks
            ELSE tasks' = tasks]_vars
    /\ [](\A u \in Users :
            uRes[u].kind = "UnregisterHandler" /\ uPc[u] = "idle" =>
                get(eventHandlers, uRes[u].event).f = Nil)
    /\ [][\A u \in Users :
            (/\ uRes[u].kind = "UnregisterHandler"
             /\ RegisterHandler_call(u)
             /\ RegEvent(uPc', uOp', uRes', u) = uRes[u].event)
            => uPc'[u] = "rh_set"]_vars
    /\ [][\A u \in Users :
            RegisterHandler_set(u) =>
                /\ uRes'[u].err = Nil
                /\ get(eventHandlers', uOp[u].event).f = uOp[u].f]_vars

\* h1 was started for two Hangup events, then unregistered; the third
\* Hangup started nothing and h2 was registered
C12_Witness ==
    /\ Len(dispatched) = 3
    /\ \A j \in 1..3 : Get(dispatched[j], "Event") = "Hangup"
    /\ dPc = "read"
    /\ Cardinality(EventTasks) = 2
    /\ \A i \in EventTasks : tasks[i].h = "h1"
    /\ \E u \in Users :
          /\ uRes[u].kind = "RegisterHandler"
          /\ uRes[u].err = Nil
          /\ uRes[u].f = "h2"
    /\ get(eventHandlers, "Hangup").f = "h2"

\* the packets readDispatcher has finished with
Completed ==
    IF dPc \in {"idle", "read", "done"} THEN Len(dispatched)
    ELSE Len(dispatched) - 1

\* the handler goroutines started as default handler for packet j
DefaultTasks(j) ==
    {i \in 1..Len(tasks) : tasks[i].via = "default" /\ tasks[i].at = j}

\* C13: for every packet the dispatcher has finished with that was read
\* after the last DefaultHandler(f) call returned: if f is a handler it was
\* started exactly once for the packet, with the packet, whatever else
\* matched; if f is nil no default handler was started for the packet.
C13_DefaultHandlerPerPacket ==
    \A j \in 1..Completed :
        dhMem.at < j =>
            IF defaultHandler # Nil
            THEN /\ Cardinality(DefaultTasks(j)) = 1
                 /\ \A i \in DefaultTasks(j) :
                       /\ tasks[i].h = defaultHandler
                       /\ tasks[i].m = dispatched[j]
            ELSE DefaultTasks(j) = {}

\* C14: the network error handler is called at most once in a session: not
\* before a read fails, once with the read error when the first read fails;
\* readDispatcher is then over for good and starts no handler any more.
C14_NetErrHandlerOnce ==
    /\ [](Len(netErrCalls) <= 1)
    /\ [](dPc # "done" => netErrCalls = <<>>)
    /\ [](dPc = "done" =>
            netErrCalls = IF netErrHandler # Nil THEN <<"EOF">> ELSE <<>>)
    /\ [][dPc = "done" => dPc' = "done" /\ Len(tasks') = Len(tasks)]_vars

\* the read failed after a handler was started; the handler was called once
C14_Witness ==
    /\ dPc = "done"
    /\ netErrHandler # Nil
    /\ netErrCalls = <<"EOF">>
    /\ Len(dispatched) >= 1
    /\ Len(tasks) >= 1
    /\ lPc = "done"

\* C15: a Write that fails (an error, or fewer bytes written) makes the call
\* that wrote return that failure as its error, in SendAction, in
\* HoldCallbackAction and in Login alike.
C15_WriteFailureReturned ==
    [][(Len(wire') = Len(wire) + 1 /\ Last(wire').out # "ok") =>
          IF Get(Last(wire').m, "Action") = "Login"
          THEN lPc' = "done" /\ lErr' = SendErr(Last(wire').out)
          ELSE \E u \in Users :
                  /\ uPc[u] # "idle"
                  /\ uPc'[u] = "idle"
                  /\ uRes'[u].err = SendErr(Last(wire').out)]_vars

\* the ActionID the caller put in the Message given to SendAction /
\* HoldCallbackAction
SuppliedIds == {Get(m, "ActionID") : m \in UserMessages}

\* C16: the Message SendAction / HoldCallbackAction write carries an
\* ActionID that no Message written before carries and that is not the one
\* the caller supplied; when a handler is passed it is registered under that
\* very ActionID as the Message is written.
C16_ActionIDOverwritten ==
    /\ [](\A i, j \in 1..Len(wire) :
            i # j => Get(wire[i].m, "ActionID") # Get(wire[j].m, "ActionID"))
    /\ [](\A i \in 1..Len(wire) :
            /\ Has(wire[i].m, "ActionID")
            /\ Get(wire[i].m, "ActionID") \notin SuppliedIds)
    /\ [][\A u \in Users :
            SendAction_send(u) \/ HoldCallbackAction_send(u) =>
                LET id == Get(Last(wire').m, "ActionID") IN
                uOp[u].f # Nil =>
                    /\ get(actionHandlers, id).f = uOp[u].f
                    /\ id \in DOMAIN everSet
                    /\ everSet[id].f = uOp[u].f]_vars

\* a request given with ActionID "mine" and a handler went out under the
\* second generated id, the handler registered under it
C16_Witness ==
    /\ Len(wire) = 2
    /\ "mine" \in SuppliedIds
    /\ Get(wire[2].m, "Action") = "Ping"
    /\ Get(wire[2].m, "ActionID") = "gami-2"
    /\ "gami-2" \in DOMAIN everSet
    /\ everSet["gami-2"].f \in UserHandlers

\* ------------------------------------------------------------ the codec's claims
\* the header lines of packet bytes b: its lines that hold a ':'
HeaderLines(b) ==
    LET lines == Split(b, _LINE_TERM) IN
    {lines[i] : i \in {j \in 1..Len(lines) : Index(lines[j], _KEY_VAL_TERM) # 0}}

\* the name of header line l: what stands before its first ':', trimmed
NameOf(l) == Str(TrimSpace(SubSeq(l, 1, Index(l, _KEY_VAL_TERM) - 1)))

\* the whole value of header line l: all after its first ':', trimmed
ValueOf(l) == Str(TrimSpace(SubSeq(l, Index(l, _KEY_VAL_TERM) + 1, Len(l))))

\* C17: every header line of a decoded packet is split once, at its first
\* ':': the Message has under the line's name the whole of what follows
\* that ':', trimmed, further ':' included.
C17_SplitAtFirstColon ==
    \A j \in 1..Len(decoded) :
        \A l \in HeaderLines(packets[j].bytes) :
            /\ Has(decoded[j], NameOf(l))
            /\ decoded[j][NameOf(l)] = ValueOf(l)

\* C18: the Message decoded from the bytes send wrote for a Message has the
\* same keys with the same values as the Message sent, whatever the order in
\* which send wrote the headers.
C18_RoundTrip ==
    \A j \in 1..Len(decoded) :
        packets[j].kind = "send" => decoded[j] = packets[j].m

\* C19 as stated: the packet '200 result=1', 'some output',
\* '--END COMMAND--', blank decodes to a Message with CmdData = "some output"
\* and the end-of-command text nowhere.
C19_CmdDataIsSomeOutput ==
    \A j \in 1..Len(decoded) :
        packets[j].bytes = CommandPacket =>
            /\ Get(decoded[j], "CmdData") = "some output"
            /\ \A k \in DOMAIN decoded[j] :
                  k # "--END COMMAND--" /\ decoded[j][k] # "--END COMMAND--"

\* C19 amended: that packet decodes to a Message whose only key is CmdData,
\* with the value "200 result=1some output": every line without ':' in
\* arrival order and nothing between them, the end-of-command line dropped.
C19_CmdDataFolding ==
    \A j \in 1..Len(decoded) :
        packets[j].bytes = CommandPacket =>
            decoded[j] = [CmdData |-> "200 result=1some output"]

\* the command packet was decoded
C19_Witness ==
    \E j \in 1..Len(decoded) :
        /\ packets[j].bytes = CommandPacket
        /\ Has(decoded[j], "CmdData")

RECURSIVE EndOf(_)
\* the number of bytes in the first j packets written
EndOf(j) == IF j = 0 THEN 0 ELSE EndOf(j - 1) + Len(packets[j].bytes)

RECURSIVE Written(_)
\* the bytes of the first j packets written
Written(j) == IF j = 0 THEN <<>> ELSE Written(j - 1) \o packets[j].bytes

\* the number of bytes r.Read has given
Consumed == EndOf(Len(packets)) - Len(stream)

\* the packets r.Read has given to their last byte
Whole == {j \in 0..Len(packets) : EndOf(j) <= Consumed}

Max(S) == CHOOSE x \in S : \A y \in S : y <= x

\* C20: however the reads cut the stream, the Messages built are those of
\* the packets read to their last byte, one each and in order, each the
\* Message the packet gives when read in one piece; the bytes of a packet
\* read in part wait in pbuf.
C20_ChunkingIrrelevant ==
    LET k == Max(Whole) IN
    /\ Len(decoded) = k
    /\ \A j \in 1..k : decoded[j] = Parse(packets[j].bytes)
    /\ pbuf = SubSeq(Written(Len(packets)), EndOf(k) + 1, Consumed)

\* "A:1\r\nB:2\r\n\r\n" gave {A: "1", B: "2"} once, and a read has ended
\* inside the CR LF CR LF of the packet after it
C20_Witness ==
    /\ Len(packets) = 2
    /\ packets[1].bytes = <<"A", ":", "1", "\r", "\n",
                            "B", ":", "2", "\r", "\n", "\r", "\n">>
    /\ decoded = <<[A |-> "1", B |-> "2"]>>
    /\ Len(stream) = 2
    /\ pbuf = SubSeq(packets[2].bytes, 1, Len(packets[2].bytes) - 2)

\* ------------------------------------------------------------ C21
\* the place of a lookup in the loop body of readDispatcher
StageRank(via) == IF via = "action" THEN 1 ELSE IF via = "event" THEN 2 ELSE 3

\* C21: handler goroutines are started in the order in which their packets
\* completed on the wire: every goroutine carries the packet that was read
\* at its position of the wire, a goroutine started later never carries an
\* earlier packet, and for one packet the action handler is started before
\* the event handler and that one before the default handler
C21_HandedInWireOrder ==
    /\ \A i \in 1..Len(tasks) :
          /\ tasks[i].at \in 1..Len(dispatched)
          /\ tasks[i].m = dispatched[tasks[i].at]
    /\ \A i, j \in 1..Len(tasks) :
          i < j =>
             /\ tasks[i].at <= tasks[j].at
             /\ tasks[i].at = tasks[j].at =>
                   StageRank(tasks[i].via) < StageRank(tasks[j].via)

\* C21 witness: goroutines were started for two packets, and two of them
\* for one and the same packet
C21_Witness ==
    /\ \E i, j \in 1..Len(tasks) : tasks[i].at < tasks[j].at
    /\ \E i, j \in 1..Len(tasks) : i < j /\ tasks[i].at = tasks[j].at


\* ------------------------------------------------------------ C22
\* C22: a handler that never returns does not stall readDispatcher: every
\* packet read is processed to the end of the loop body whatever the
\* goroutines started before are doing, and when the action lookup of a
\* packet finds a handler the goroutine for it is started with the packet
C22_BlockedHandlerDoesNotStall ==
    /\ \A n \in 1..MaxPackets : (Len(dispatched) = n) ~> (Completed >= n)
    /\ [][(/\ dPc = "action"
           /\ dPc' # "action"
           /\ get(actionHandlers, Get(dCur, "ActionID")).f # Nil)
            => /\ Len(tasks') = Len(tasks) + 1
               /\ Last(tasks').h = get(actionHandlers, Get(dCur, "ActionID")).f
               /\ Last(tasks').m = dCur]_vars

\* C22 witness: a handler goroutine has not returned, a packet read after
\* the one it was started for has been processed and the handler of that
\* later packet has been started
C22_Witness ==
    \E i, j \in 1..Len(tasks) :
        /\ tasks[i].pc = "run"
        /\ tasks[i].at < tasks[j].at
        /\ tasks[j].at <= Completed


\* ------------------------------------------------------------ C23
\* C23: HoldCallbackAction called with a nil handler on an authorized
\* session returns the error "Use SendAction with nil callback"; the step
\* that returns it writes nothing to the connection and leaves the action
\* registry as it is, and the ActionID the call generated is never written
\* nor registered
C23_HoldWithNilHandler ==
    /\ [][\A u \in Users :
            (/\ uPc[u] = "hc_gen"
             /\ uOp[u].f = Nil
             /\ uPc'[u] # "hc_gen")
              => /\ uPc'[u] = "idle"
                 /\ uRes'[u].kind = "HoldCallbackAction"
                 /\ uRes'[u].err = ErrNilCallback
                 /\ wire' = wire
                 /\ actionHandlers' = actionHandlers]_vars
    /\ [](\A u \in Users :
            uRes[u].err = ErrNilCallback =>
               /\ ~Has(everSet, Get(uRes[u].m, "ActionID"))
               /\ \A i \in 1..Len(wire) :
                     Get(wire[i].m, "ActionID") # Get(uRes[u].m, "ActionID"))

\* C23 witness: after a Login that succeeded a HoldCallbackAction call has
\* returned the nil-handler error
C23_Witness ==
    \E u \in Users :
        /\ authorized
        /\ uPc[u] = "idle"
        /\ uRes[u].kind = "HoldCallbackAction"
        /\ uRes[u].err = ErrNilCallback


\* ------------------------------------------------------------ C24
\* the reply to request id so far is ended by an error response, the first
\* packet of it that ends a list
EndedByError(id) ==
    LET r == Replies(id) IN
    /\ Len(r) >= 1
    /\ Get(r[Len(r)], "Response") = "Error"
    /\ \A j \in 1..(Len(r) - 1) :
          ~IsComplete(r[j]) /\ Get(r[j], "Response") # "Error"

\* C24: when the reply to a list command is ended by an error response and
\* the list call has returned, the entry of the aggregator is gone from the
\* action registry and the call has returned an error
C24_ListErrorReturned ==
    \A u \in Users :
        (/\ uPc[u] = "idle"
         /\ uRes[u].kind = "GetList"
         /\ Has(uRes[u].m, "ActionID")
         /\ EndedByError(Get(uRes[u].m, "ActionID")))
          => /\ get(actionHandlers, Get(uRes[u].m, "ActionID")).f = Nil
             /\ uRes[u].err # Nil


\* ------------------------------------------------------------ C25
\* C25: when Write transmits fewer bytes than the encoded packet and gives
\* no error, send returns the error "Not fully writed packet to output
\* stream", and the SendAction call that wrote returns that error
C25_ShortWriteIsFailure ==
    [][\A u \in Users :
          (/\ uPc[u] = "sa_send"
           /\ Len(wire') = Len(wire) + 1
           /\ Last(wire').out = "short")
            => /\ uPc'[u] = "idle"
               /\ uRes'[u].kind = "SendAction"
               /\ uRes'[u].err = ErrShortWrite
               /\ uRes'[u].err # Nil]_vars

\* C25 witness: a SendAction call has returned the short-write error for
\* the packet it wrote last
C25_Witness ==
    \E u \in Users :
        /\ uPc[u] = "idle"
        /\ uRes[u].kind = "SendAction"
        /\ uRes[u].err = ErrShortWrite
        /\ Len(wire) >= 1
        /\ Last(wire).out = "short"
        /\ Last(wire).m = uRes[u].m


\* ------------------------------------------------------------ C30
\* C30: when the Write of a SendAction call with a handler fails after the
\* handler was registered, the call returns the write error and the step
\* leaves the entry in the action registry and starts no goroutine; the
\* entry stays from then on and its handler is never started
C30_FailedWriteOrphansHandler ==
    /\ [][\A u \in Users :
            (/\ uPc[u] = "sa_send"
             /\ uOp[u].f # Nil
             /\ Len(wire') = Len(wire) + 1
             /\ Last(wire').out # "ok")
              => /\ uPc'[u] = "idle"
                 /\ uRes'[u].err = SendErr(Last(wire').out)
                 /\ uRes'[u].err # Nil
                 /\ get(actionHandlers', Get(uOp[u].m, "ActionID")) =
                       [f |-> uOp[u].f, sd |-> FALSE]
                 /\ tasks' = tasks]_vars
    /\ [](\A u \in Users :
            (/\ uPc[u] = "idle"
             /\ uRes[u].kind = "SendAction"
             /\ uRes[u].err \in {ErrConnWrite, ErrShortWrite}
             /\ Has(everSet, Get(uRes[u].m, "ActionID")))
              => /\ get(actionHandlers, Get(uRes[u].m, "ActionID")) =
                       everSet[Get(uRes[u].m, "ActionID")]
                 /\ StartedFor(Get(uRes[u].m, "ActionID")) = {})

\* C30 witness: a SendAction call with a handler has returned a write error,
\* the dispatcher has processed packets since and the entry is still there
C30_Witness ==
    \E u \in Users :
        /\ uPc[u] = "idle"
        /\ uRes[u].kind = "SendAction"
        /\ uRes[u].err \in {ErrConnWrite, ErrShortWrite}
        /\ Has(everSet, Get(uRes[u].m, "ActionID"))
        /\ get(actionHandlers, Get(uRes[u].m, "ActionID")).f \in UserHandlers
        /\ Len(dispatched) >= 2
        /\ dPc = "read"


\* ------------------------------------------------------------ SpecCb
\* a cbList made as NewAsterisk makes one, and calls of set, get and del on
\* it; each call holds cbl.mu from its first statement to its last
MaxCbOps == 4

CbKeys == {"k1", "k2"}

CbFns == {"h1", "h2"}

\* cb.set(k, f, sd)
Cb_set ==
    /\ Len(cbLog) < MaxCbOps
    /\ \E k \in CbKeys, f \in CbFns, sd \in BOOLEAN :
          /\ cb' = set(cb, k, f, sd)
          /\ cbLog' = Append(cbLog, [op |-> "set", key |-> k,
                                     got |-> [f |-> f, sd |-> sd]])
    /\ UNCHANGED <<aidVars, sessVars, codecVars, agiVars>>

\* f, sd := cb.get(k)
Cb_get ==
    /\ Len(cbLog) < MaxCbOps
    /\ \E k \in CbKeys :
          cbLog' = Append(cbLog, [op |-> "get", key |-> k, got |-> get(cb, k)])
    /\ UNCHANGED <<aidVars, sessVars, codecVars, cb, agiVars>>

\* cb.del(k)
Cb_del ==
    /\ Len(cbLog) < MaxCbOps
    /\ \E k \in CbKeys :
          /\ cb' = del(cb, k)
          /\ cbLog' = Append(cbLog, [op |-> "del", key |-> k,
                                     got |-> [f |-> Nil, sd |-> FALSE]])
    /\ UNCHANGED <<aidVars, sessVars, codecVars, agiVars>>

NextCb ==
    \/ Cb_set
    \/ Cb_get
    \/ Cb_del

SpecCb == Init /\ [][NextCb]_vars

\* ------------------------------------------------------------ C26
\* the positions before j of the calls that wrote key k: set and del
WritesBefore(k, j) ==
    {i \in 1..(j - 1) : cbLog[i].key = k /\ cbLog[i].op \in {"set", "del"}}

\* what the last write of key k before call j left: the pair of the set, or
\* nil and false after a del and when the key was never set
LeftFor(k, j) ==
    IF WritesBefore(k, j) = {} THEN [f |-> Nil, sd |-> FALSE]
    ELSE cbLog[Max(WritesBefore(k, j))].got

\* the keys whose last write is a set
KeysSet == {k \in CbKeys : LeftFor(k, Len(cbLog) + 1).f # Nil}

\* C26: get(k) returns exactly the pair of the last set(k, f, sd), also when
\* an earlier set of the same key is replaced by it; the handler map and
\* the retain-flag map hold one entry for each key whose last write is a
\* set and none for a key never set or deleted since
C26_RegistrySetGetDel ==
    /\ \A j \in 1..Len(cbLog) :
          cbLog[j].op = "get" => cbLog[j].got = LeftFor(cbLog[j].key, j)
    /\ DOMAIN cb.f = KeysSet
    /\ DOMAIN cb.sd = KeysSet
    /\ \A k \in KeysSet :
          [f |-> cb.f[k], sd |-> cb.sd[k]] = LeftFor(k, Len(cbLog) + 1)

\* C26 witness: a key was set, set again with another handler and another
\* flag, read, and then deleted
C26_Witness ==
    /\ Len(cbLog) = 4
    /\ \A j \in 1..4 : cbLog[j].key = "k1"
    /\ cbLog[1].op = "set" /\ cbLog[1].got = [f |-> "h1", sd |-> TRUE]
    /\ cbLog[2].op = "set" /\ cbLog[2].got = [f |-> "h2", sd |-> FALSE]
    /\ cbLog[3].op = "get" /\ cbLog[3].got = [f |-> "h2", sd |-> FALSE]
    /\ cbLog[4].op = "del"
    /\ "k1" \notin DOMAIN cb.f
    /\ "k1" \notin DOMAIN cb.sd


\* ------------------------------------------------------------ package agi
\* An Agi reads lines from a.in and writes command lines to a.out.  Lines
\* are byte sequences, as in the frame codec.
MaxAgiLines == 2

MaxAgiCalls == 2

\* a.in.ReadString('\n'): the bytes up to and with the first "\n"; what is
\* left and io.EOF when a.in ends before one
ReadString(in) ==
    LET i == Index(in, <<"\n">>) IN
    IF i = 0 THEN [line |-> in, rest |-> <<>>, err |-> "EOF"]
    ELSE [line |-> SubSeq(in, 1, i), rest |-> SubSeq(in, i + 1, Len(in)),
          err |-> Nil]

IsDigit(ch) == ch \in {Digit(n) : n \in 0..9}

RECURSIVE DigitsPrefix(_)
\* what a leading \d* or \d+ matches: the longest run of digits b begins with
DigitsPrefix(b) ==
    IF b # <<>> /\ IsDigit(Head(b)) THEN <<Head(b)>> \o DigitsPrefix(Tail(b))
    ELSE <<>>

RECURSIVE Atoi(_)
\* code, _ := strconv.Atoi(s) for s of digits only: its value, 0 for ""
\* (the error dropped); the lines here stay far below the range of int
Atoi(b) ==
    IF b = <<>> THEN 0
    ELSE 10 * Atoi(SubSeq(b, 1, Len(b) - 1))
           + (CHOOSE n \in 0..9 : Digit(n) = b[Len(b)])

\* _RespRe.MatchString(line), _RespRe = ^(\d*)\s*(.*): each part matches the
\* empty string, so every line matches
RespReMatches(line) == TRUE

\* read520: the payload becomes the start of the error text, one more line
\* is read and ends the loop, as it matches _RespRe
read520(payload, in) ==
    LET rs == ReadString(in) IN
    [resp |-> [Payload |-> <<>>, Code |-> 520,
               Err |-> Str(payload) \o "\n" \o Str(rs.line) \o "\n"],
     rest |-> rs.rest]

\* readResponse: one line is read and trimmed, its leading digits are the
\* code; 200 is success, 520 reads on, any other code is an error
readResponse(in) ==
    LET rs == ReadString(in)
        line == TrimSpace(rs.line)
        code == Atoi(DigitsPrefix(line)) IN
    IF rs.err # Nil
    THEN [resp |-> [Payload |-> <<>>, Code |-> 0, Err |-> rs.err],
          rest |-> rs.rest]
    ELSE IF RespReMatches(line)
    THEN IF code = 520 THEN read520(line, rs.rest)
         ELSE [resp |-> [Payload |-> line, Code |-> code,
                         Err |-> IF code = 200 THEN Nil
                                 ELSE IF code = 510 THEN "Unknown command"
                                 ELSE "Unknown code"],
               rest |-> rs.rest]
    ELSE [resp |-> [Payload |-> <<>>, Code |-> 0,
                    Err |-> "Unknown reponse: " \o Str(line)],
          rest |-> rs.rest]

\* exec: the line written to a.out, the command, " ", every argument with a
\* " " after it, "\n"
RECURSIVE JoinArgs(_)
JoinArgs(args) ==
    IF args = <<>> THEN "" ELSE Head(args) \o " " \o JoinArgs(Tail(args))

CmdLine(cmd, args) == cmd \o " " \o JoinArgs(args) \o "\n"

\* statusRe.FindStringSubmatch(payload), statusRe = ^\d+\s*result=(\d+):
\* whether it matches, and group 1
StatusReGroups(payload) ==
    LET code == DigitsPrefix(payload)
        after == TrimLeft(SubSeq(payload, Len(code) + 1, Len(payload)))
        key == <<"r", "e", "s", "u", "l", "t", "=">>
        num == DigitsPrefix(SubSeq(after, Len(key) + 1, Len(after))) IN
    IF /\ code # <<>>
       /\ Len(after) >= Len(key)
       /\ SubSeq(after, 1, Len(key)) = key
       /\ num # <<>>
    THEN [ok |-> TRUE, g1 |-> num]
    ELSE [ok |-> FALSE, g1 |-> <<>>]

\* _VarRe.FindStringSubmatch(payload), _VarRe = ^(\d*)\s*(.*)\s*\((\S+)\):
\* it matches when a "(" is followed by one or more bytes that are no space
\* and then a ")"; the greedy (.*) takes the last such "(" and the greedy
\* (\S+) runs to the last ")" it can; group 3 is what lies between
VarReGroups(payload) ==
    LET ends(i) == {j \in (i + 2)..Len(payload) :
                      /\ payload[j] = ")"
                      /\ \A k \in (i + 1)..(j - 1) : ~IsSpace(payload[k])}
        opens == {i \in 1..Len(payload) :
                     payload[i] = "(" /\ ends(i) # {}} IN
    IF opens = {} THEN [ok |-> FALSE, g3 |-> <<>>]
    ELSE LET i == CHOOSE x \in opens : \A y \in opens : y <= x
             j == CHOOSE x \in ends(i) : \A y \in ends(i) : y <= x IN
         [ok |-> TRUE, g3 |-> SubSeq(payload, i + 1, j - 1)]

NoGroupsNever(g) == FALSE

\* if len(groups) != 4
NoGroups(g) == ~g.ok

\* readVarFromResp(r): the response as it is when it carries an error, "No
\* such variable" when _VarRe finds no value, else the value
readVarFromResp(r) ==
    IF r.Err # Nil THEN [resp |-> r, val |-> ""]
    ELSE LET g == VarReGroups(r.Payload) IN
         IF NoGroups(g)
         THEN [resp |-> [r EXCEPT !.Err = "No such variable"], val |-> ""]
         ELSE [resp |-> r, val |-> Str(g.g3)]

RECURSIVE readEnv(_, _)
\* readEnv: lines are read and trimmed up to the first empty one; each is
\* split at ":" and a.Env[lines[0]] = lines[1]; a line with no ":" makes
\* lines[1] an index out of range
readEnv(env, in) ==
    LET rs == ReadString(in)
        line == TrimSpace(rs.line)
        lines == Split(line, <<":">>) IN
    IF rs.err # Nil THEN [env |-> env, rest |-> rs.rest, end |-> rs.err]
    ELSE IF Len(line) = 0 THEN [env |-> env, rest |-> rs.rest, end |-> Nil]
    ELSE IF Len(lines) < 2
    THEN [env |-> env, rest |-> rs.rest, end |-> "panic"]
    ELSE readEnv(Put(env, Str(lines[1]), Str(lines[2])), rs.rest)

\* the environment Asterisk may write first: names, values, lines, and the
\* bytes of a block of lines ended by an empty line
EnvKeys == {<<"a">>, <<"b">>}

EnvValues == {<<"1">>, <<"x", ":", "y">>}

EnvPairs == {[k |-> k, v |-> v] : k \in EnvKeys, v \in EnvValues}

EnvPairSeqs ==
    {<<>>} \cup {<<p>> : p \in EnvPairs}
           \cup {<<p, q>> : p \in {x \in EnvPairs : x.k = <<"a">>},
                              q \in EnvPairs}

RECURSIVE EnvBlock(_)
EnvBlock(ps) ==
    IF ps = <<>> THEN <<"\n">>
    ELSE Head(ps).k \o <<":">> \o Head(ps).v \o <<"\n">> \o EnvBlock(Tail(ps))

\* what a.in holds when NewAgi is called: an environment block, a line with
\* no ":", or a block that ends before its empty line
AgiInputs ==
    {EnvBlock(ps) : ps \in EnvPairSeqs}
       \cup {<<"z", "\n", "\n">>, <<"a", ":", "1", "\n">>}

\* the response lines Asterisk may write
AgiReplies ==
    {<<"2", "0", "0", " ", "r", "e", "s", "u", "l", "t", "=", "4", "\n">>,
     <<"2", "0", "0", " ", "r", "e", "s", "u", "l", "t", "=", "1", " ", "(", "v", "a", "l", ")", "\n">>,
     <<"2", "0", "0", " ", "r", "e", "s", "u", "l", "t", "=", "-", "1", "\n">>,
     <<"5", "1", "0", " ", "I", "n", "v", "a", "l", "i", "d", "\n">>,
     <<"5", "2", "0", " ", "U", "s", "a", "g", "e", "\n">>}

InitAgi ==
    /\ InitAidVars
    /\ host = NewAidHost("")
    /\ InitSession
    /\ IdleCodec
    /\ cb = EmptyCbList
    /\ cbLog = <<>>
    /\ agiIn \in AgiInputs
    /\ agiLines = 0
    /\ agiOut = <<>>
    /\ agiEnv = <<>>
    /\ agiPc = "new"
    /\ agiRes = NoAgiRes
    /\ agiCalls = 0

\* Asterisk writes a response line
Agi_reply ==
    /\ agiLines < MaxAgiLines
    /\ agiLines' = agiLines + 1
    /\ \E l \in AgiReplies : agiIn' = agiIn \o l
    /\ UNCHANGED <<aidVars, sessVars, codecVars, cbVars, agiOut, agiEnv,
                   agiPc, agiRes, agiCalls>>

\* NewAgi(): the Agi is made and a.readEnv() is run, its result dropped
Agi_NewAgi ==
    /\ agiPc = "new"
    /\ LET e == readEnv(<<>>, agiIn) IN
          /\ agiEnv' = e.env
          /\ agiIn' = e.rest
          /\ agiRes' = [call |-> "NewAgi", end |-> e.end]
          /\ agiPc' = IF e.end = "panic" THEN "panic" ELSE "ready"
    /\ UNCHANGED <<aidVars, sessVars, codecVars, cbVars, agiLines, agiOut,
                   agiCalls>>

\* ChannelStatus(): exec, then -1 with an error, else Atoi of group 1 of
\* statusRe; groups[1] of no match is an index out of range
Agi_ChannelStatus ==
    /\ agiPc = "ready"
    /\ agiCalls < MaxAgiCalls
    /\ agiCalls' = agiCalls + 1
    /\ agiOut' = Append(agiOut, CmdLine("CHANNEL STATUS", <<>>))
    /\ LET r == readResponse(agiIn)
           g == StatusReGroups(r.resp.Payload) IN
          /\ agiIn' = r.rest
          /\ IF r.resp.Err # Nil
             THEN /\ agiRes' = [call |-> "ChannelStatus", resp |-> r.resp,
                                status |-> -1, panic |-> FALSE, in |-> agiIn]
                  /\ agiPc' = agiPc
             ELSE IF g.ok
             THEN /\ agiRes' = [call |-> "ChannelStatus", resp |-> r.resp,
                                status |-> Atoi(g.g1), panic |-> FALSE,
                                in |-> agiIn]
                  /\ agiPc' = agiPc
             ELSE /\ agiRes' = [call |-> "ChannelStatus", resp |-> r.resp,
                                status |-> 0, panic |-> TRUE, in |-> agiIn]
                  /\ agiPc' = "panic"
    /\ UNCHANGED <<aidVars, sessVars, codecVars, cbVars, agiLines, agiEnv>>

\* return a.readVarFromResp(a.exec(cmd, args...))
Agi_readVar(call, cmd, args) ==
    /\ agiPc = "ready"
    /\ agiCalls < MaxAgiCalls
    /\ agiCalls' = agiCalls + 1
    /\ agiOut' = Append(agiOut, CmdLine(cmd, args))
    /\ LET r == readResponse(agiIn)
           v == readVarFromResp(r.resp) IN
          /\ agiIn' = r.rest
          /\ agiRes' = [call |-> call, resp |-> v.resp, val |-> v.val,
                        panic |-> FALSE, in |-> agiIn]
    /\ UNCHANGED <<aidVars, sessVars, codecVars, cbVars, agiLines, agiEnv,
                   agiPc>>

\* DBGet(family, key)
Agi_DBGet == Agi_readVar("DBGet", "DATABASE GET", <<"fam1", "key">>)

\* GetVariable(name)
Agi_GetVariable == Agi_readVar("GetVariable", "GET VARIABLE", <<"name">>)

NextAgi ==
    \/ Agi_reply
    \/ Agi_NewAgi
    \/ Agi_ChannelStatus
    \/ Agi_DBGet
    \/ Agi_GetVariable

SpecAgi == InitAgi /\ [][NextAgi]_vars


\* ------------------------------------------------------------ C27
\* the response line the last call read
ReplyLine == ReadString(agiRes.in).line

\* a line that begins with the code 200 and holds no "(" with a ")" after it
Is200NoValue(l) ==
    /\ Len(l) >= 4
    /\ SubSeq(l, 1, 3) = <<"2", "0", "0">>
    /\ ~IsDigit(l[4])
    /\ ~\E i, j \in 1..Len(l) : i < j /\ l[i] = "(" /\ l[j] = ")"

\* C27: DBGet and GetVariable, when the response line is a 200 reply with
\* no parenthesised value, return normally with the empty value and the
\* error "No such variable"
C27_NoSuchVariable ==
    (agiRes.call \in {"DBGet", "GetVariable"} /\ Is200NoValue(ReplyLine))
      => /\ ~agiRes.panic
         /\ agiPc = "ready"
         /\ agiRes.val = ""
         /\ agiRes.resp.Err = "No such variable"
         /\ agiRes.resp.Err # Nil
         /\ agiRes.resp.Code = 200

\* C27 witness: DBGet has read the line 200 result=4 and returned
C27_Witness ==
    /\ agiRes.call = "DBGet"
    /\ ReplyLine = <<"2", "0", "0", " ", "r", "e", "s", "u", "l", "t", "=",
                     "4", "\n">>
    /\ agiRes.val = ""

\* ------------------------------------------------------------ C28
\* the line 200 result=n for a status n of one digit
StatusLine(n) ==
    <<"2", "0", "0", " ", "r", "e", "s", "u", "l", "t", "=", Digit(n), "\n">>

\* C28: ChannelStatus returns for every response line, never panicking: code
\* 200 and status N for the line 200 result=N, status -1 when the response
\* carries an error
C28_ChannelStatus ==
    agiRes.call = "ChannelStatus"
      => /\ ~agiRes.panic
         /\ agiRes.resp.Err # Nil => agiRes.status = -1
         /\ \A n \in 0..9 :
               ReplyLine = StatusLine(n) =>
                  agiRes.resp.Code = 200 /\ agiRes.status = n

\* ------------------------------------------------------------ C29
\* the Env of the lines ps: each name with the value of its last line
EnvOf(ps) ==
    [k \in {Str(ps[i].k) : i \in 1..Len(ps)} |->
        Str(ps[Max({i \in 1..Len(ps) : Str(ps[i].k) = k})].v)]

\* C29: when a.in begins with lines key:value and then an empty line,
\* readEnv ends at the empty line with Env mapping every key to its value,
\* and a.in is left with all that follows the empty line
C29_ReadEnv ==
    [][\A ps \in EnvPairSeqs :
          (/\ agiPc = "new"
           /\ agiPc' # "new"
           /\ Len(agiIn) >= Len(EnvBlock(ps))
           /\ SubSeq(agiIn, 1, Len(EnvBlock(ps))) = EnvBlock(ps))
            => /\ agiPc' = "ready"
               /\ agiRes'.end = Nil
               /\ agiEnv' = EnvOf(ps)
               /\ agiIn' = SubSeq(agiIn, Len(EnvBlock(ps)) + 1, Len(agiIn))]_vars


\* ------------------------------------------------------------ C31
\* a read of the connection has failed
ReadFailed == Len(netErrCalls) >= 1

\* a goroutine was started for the packet that ends the wait of u's list call
TerminalStarted(u) ==
    \E i \in 1..Len(tasks) :
        /\ tasks[i].h = uOp[u].inst
        /\ CljTerminal(tasks[i].m, lists[tasks[i].h].kind)

\* C31: the step in which a read fails leaves the action registry, the event
\* registry and the handler goroutines as they are; from then on no handler
\* is started, no entry that is not retained leaves the action registry,
\* and a Login or a list call that waits for a response that had not
\* arrived goes on waiting
C31_ReadFailureNotifiesNobody ==
    /\ [][Len(netErrCalls') > Len(netErrCalls) =>
             /\ actionHandlers' = actionHandlers
             /\ eventHandlers' = eventHandlers
             /\ tasks' = tasks]_vars
    /\ [][ReadFailed =>
             /\ Len(tasks') = Len(tasks)
             /\ \A id \in DOMAIN actionHandlers.f :
                   ~actionHandlers.sd[id] =>
                      /\ id \in DOMAIN actionHandlers'.f
                      /\ actionHandlers'.f[id] = actionHandlers.f[id]
             /\ (lPc = "recv" /\ ~\E i \in 1..Len(tasks) : tasks[i].h = Lhf)
                   => lPc' = "recv"
             /\ \A u \in Users :
                   (uPc[u] = "recv" /\ ~TerminalStarted(u))
                      => uPc'[u] = "recv"]_vars

\* C31 witness: the read has failed while a list call waits for its answer;
\* the entry of its aggregator is in the action registry and no goroutine
\* was started for it
C31_Witness ==
    \E u \in Users :
        /\ ReadFailed
        /\ dPc = "done"
        /\ uPc[u] = "recv"
        /\ ~TerminalStarted(u)
        /\ get(actionHandlers, Get(uOp[u].m, "ActionID")).f = uOp[u].inst


\* ------------------------------------------------------------ C32
\* the packets dispatched for request id that end its exchange
Terminating(id) ==
    {j \in 1..Len(dispatched) :
        /\ Get(dispatched[j], "ActionID") = id
        /\ IsComplete(dispatched[j]) \/ Get(dispatched[j], "Response") = "Error"}

\* the goroutines of the aggregator of request id that are about to send on
\* mc or are sending
Producing(id) ==
    {i \in 1..Len(tasks) :
        /\ tasks[i].h \in DOMAIN lists
        /\ Get(tasks[i].m, "ActionID") = id
        /\ tasks[i].pc \in {"del", "capture", "send"}}

LhfTasks == {i \in 1..Len(tasks) : tasks[i].h = Lhf}

\* C32: Login's channel is sent on by one goroutine, which finds Login in
\* its receive, and when Login has received that goroutine is done.  For a
\* list request the server ended with one terminating packet: one
\* goroutine at most sends on mc, it finds the caller in its receive, and
\* when the caller has returned no goroutine is left to send
C32_OneSendOneReceive ==
    /\ Cardinality(LhfTasks) <= 1
    /\ \A i \in LhfTasks : tasks[i].pc = "send" => lPc = "recv"
    /\ lPc \in {"ret", "done"} =>
          /\ Cardinality(LhfTasks) = 1
          /\ \A i \in LhfTasks : tasks[i].pc = "done"
    /\ \A id \in DOMAIN everSet :
          Cardinality(Terminating(id)) = 1 =>
             /\ Cardinality(Producing(id)) <= 1
             /\ \A i \in Producing(id) :
                   tasks[i].pc = "send" =>
                      \E u \in Users :
                         uPc[u] = "recv" /\ uOp[u].inst = tasks[i].h
             /\ \A u \in Users :
                   (uPc[u] = "idle" /\ uRes[u].kind = "GetList"
                      /\ Get(uRes[u].m, "ActionID") = id)
                     => Producing(id) = {}

\* C32 witness: a list request was ended by one terminating packet after a
\* data packet, the caller has received the list and returned, and Login
\* has received its answer
C32_Witness ==
    \E u \in Users :
        /\ uPc[u] = "idle"
        /\ uRes[u].kind = "GetList"
        /\ uRes[u].err = Nil
        /\ Has(uRes[u].m, "ActionID")
        /\ Cardinality(Terminating(Get(uRes[u].m, "ActionID"))) = 1
        /\ Len(Replies(Get(uRes[u].m, "ActionID"))) = 2
        /\ lPc = "done"


\* ------------------------------------------------------------ C33
\* C33: a.authorized changes in two steps only: to true in the return of a
\* Login whose answer was Response: Success, and to false in the failure
\* path of a read in readDispatcher; every step of SendAction,
\* HoldCallbackAction, Logoff, DelCallback, RegisterHandler,
\* UnregisterHandler, DefaultHandler and of the dispatch of a packet leaves
\* it as it is
C33_AuthorizedWriters ==
    [][authorized' # authorized =>
          \/ /\ authorized'
             /\ lPc = "ret" /\ lPc' = "done"
             /\ LoginAnswered
             /\ Get(LoginAnswer, "Response") = "Success"
             /\ userVars' = userVars
             /\ dispVars' = dispVars
          \/ /\ ~authorized'
             /\ dPc = "read" /\ dPc' = "done"
             /\ userVars' = userVars
             /\ loginVars' = loginVars]_vars

\* C33 witness: Login has set authorized, a Logoff was written, an event
\* handler was registered, and the read then failed and cleared it
C33_Witness ==
    /\ lPc = "done"
    /\ lErr = Nil
    /\ dPc = "done"
    /\ ~authorized
    /\ \E i \in 1..Len(wire) : Get(wire[i].m, "Action") = "Logoff"
    /\ get(eventHandlers, "Hangup").f # Nil


\* ------------------------------------------------------------ C34
\* the goroutine started for the packet being dispatched by the lookup via
GoneFor(via) ==
    \E i \in 1..Len(tasks) :
        tasks[i].at = Len(dispatched) /\ tasks[i].via = via

\* C34: a packet that carries an ActionID with a registered action handler
\* and an Event with a registered event handler has both handlers started:
\* after the action lookup of a packet with an Event header the event lookup
\* is the next lookup, and the event lookup that finds a handler starts a
\* goroutine for it with this packet, whatever the action lookup started
C34_BothHandlersStarted ==
    /\ [][(dPc = "action" /\ dPc' # dPc /\ Has(dCur, "Event"))
             => /\ dPc' \in {"del", "event"}
                /\ get(actionHandlers, Get(dCur, "ActionID")).f # Nil
                      => GoneFor("action")']_vars
    /\ [][(dPc = "del" /\ dPc' # dPc /\ Has(dCur, "Event"))
             => dPc' = "event"]_vars
    /\ [][(/\ dPc = "event" /\ dPc' # dPc
           /\ GoneFor("action")
           /\ get(eventHandlers, Get(dCur, "Event")).f # Nil)
             => /\ GoneFor("action")'
                /\ \E i \in 1..Len(tasks') :
                      /\ tasks'[i].at = Len(dispatched)
                      /\ tasks'[i].via = "event"
                      /\ tasks'[i].m = dCur
                      /\ tasks'[i].h = get(eventHandlers, Get(dCur, "Event")).f]_vars

\* one packet for which the user's action handler and the event handler were
\* both started
C34_Witness ==
    \E i, j \in 1..Len(tasks) :
        /\ tasks[i].at = tasks[j].at
        /\ tasks[i].m = tasks[j].m
        /\ tasks[i].via = "action" /\ tasks[i].h \in UserHandlers
        /\ tasks[j].via = "event" /\ tasks[j].h \in EventHandlerFns
        /\ Has(tasks[i].m, "ActionID") /\ Get(tasks[i].m, "Event") = "Hangup"


\* ------------------------------------------------------------ C35
\* no packet with the correlation ID v was dispatched before the current one
FirstFor(v) ==
    \A j \in 1..(Len(dispatched) - 1) : Get(dispatched[j], "ActionID") # v

\* the entry set under v is due at the action lookup of the current packet:
\* no DelCallback was made for v, and it is a held entry or this is the first
\* packet with v
Due(v) ==
    /\ Has(everSet, v)
    /\ v \notin delCalled
    /\ Get(everSet, v).sd \/ FirstFor(v)

\* C35: Login, SendAction and HoldCallbackAction register the handler under
\* the new correlation ID before they write the request: a call that is about
\* to write has its handler in the action registry, every request of Login
\* or of a list call on the wire had its handler set, and the action lookup
\* of a response finds the handler set for its ID (the first response of a
\* plain entry, every response of a held one until DelCallback)
C35_RegisteredBeforeWrite ==
    /\ [](lPc = "send" => get(actionHandlers, lAid).f = Lhf)
    /\ [](\A u \in Users :
             (uPc[u] \in {"sa_send", "hc_send"} /\ uOp[u].f # Nil)
                => get(actionHandlers, uOp[u].m["ActionID"]).f = uOp[u].f)
    /\ [](\A i \in 1..Len(wire) :
             Get(wire[i].m, "Action") \in {"Login"} \cup ListActions
                => Has(everSet, Get(wire[i].m, "ActionID")))
    /\ [][(dPc = "action" /\ dPc' # dPc /\ Due(Get(dCur, "ActionID")))
             => /\ Len(tasks') = Len(tasks) + 1
                /\ tasks'[Len(tasks')].h = Get(everSet, Get(dCur, "ActionID")).f
                /\ tasks'[Len(tasks')].via = "action"
                /\ tasks'[Len(tasks')].m = dCur]_vars

\* the answers to Login and to a SendAction with a handler were dispatched
\* and each started the handler of its request
C35_Witness ==
    /\ \E i \in 1..Len(tasks) : tasks[i].h = Lhf /\ tasks[i].via = "action"
    /\ \E i \in 1..Len(tasks) :
          /\ tasks[i].h \in UserHandlers
          /\ tasks[i].via = "action"
          /\ \E j \in 1..Len(wire) :
                /\ wire[j].out = "ok"
                /\ Get(wire[j].m, "Action") = "Ping"
                /\ Get(wire[j].m, "ActionID") = Get(tasks[i].m, "ActionID")


\* ------------------------------------------------------------ C36
\* the bytes a step took off the stream (a read), none in any other step
Chunk ==
    IF Len(stream') < Len(stream)
    THEN SubSeq(stream, 1, Len(stream) - Len(stream'))
    ELSE <<>>

\* C36: no partial packet is dispatched.  After every read pbuf holds no
\* CR LF CR LF; a read that leaves pbuf and its bytes with n terminators
\* adds exactly n Messages, in order, each parsed from the bytes up to and
\* with its terminator, and pbuf keeps the bytes after the last terminator,
\* all of them; a step that reads nothing changes neither pbuf nor the
\* Messages built
C36_NoPartialPacket ==
    /\ [](Index(pbuf, _PT_BYTES) = 0)
    /\ [][LET pieces == Split(pbuf \o Chunk, _PT_BYTES)
              n == Len(pieces) - 1 IN
          /\ Len(decoded') = Len(decoded) + n
          /\ SubSeq(decoded', 1, Len(decoded)) = decoded
          /\ \A i \in 1..n :
                decoded'[Len(decoded) + i] = Parse(pieces[i] \o _PT_BYTES)
          /\ pbuf' = pieces[n + 1]]_vars

\* one Message was built and a read has ended one byte before the end of the
\* second packet: its bytes wait in pbuf, no Message was built of them
C36_Witness ==
    /\ Len(packets) = 2
    /\ Len(decoded) = 1
    /\ stream = <<"\n">>
    /\ pbuf = SubSeq(packets[2].bytes, 1, Len(packets[2].bytes) - 1)
    /\ Index(packets[2].bytes, _PT_BYTES) # 0


====
